---- MODULE Spec2Model ----
(***************************************************************************)
(* Hybrid recommendation core of hackathon-Nexus (rag_app):                *)
(*   - RecommendationService.capture_interaction  (user profile updater)   *)
(*   - CollaborativeRecommendationService         (hybrid scorer)          *)
(*   - get_deterministic_id, map_qdrant_product   (id mapper, adapter)     *)
(*                                                                         *)
(* Numbers.  Python floats are modelled in fixed point:                    *)
(*   vectors and cosine scores in units of 1/Scale,                        *)
(*   interaction weights in tenths, confidence in hundredths,              *)
(*   money in units of 1/BudgetDen of a currency unit (exact for the       *)
(*   factors 0.7, 1.3, 0.5, 1.5 and for the halvings of a purchase).       *)
(* Strings (product ids, user e-mails) are sequences of characters.        *)
(***************************************************************************)
EXTENDS Integers, Sequences, FiniteSets, TLC

(***************************************************************************)
(* Bounds of the model.                                                    *)
(***************************************************************************)
\* fixed-point resolution of vector components and similarity scores
Scale == 1000
\* capture_interaction calls issued in one behaviour (on top of the history
\* the initial profile store already holds)
MaxCalls == 2
\* length of the long browsing history some initial stores start from
WarmLen == 19

(***************************************************************************)
(* Strings and the deterministic id mapper (core/database.py).             *)
(***************************************************************************)
\* ord() of the characters used by the model; "^2" stands for the one
\* character U+00B2, SUPERSCRIPT TWO
CharCode == [c \in {"0","1","2","3","4","5","6","7","8","9","a","b","@","^2"} |->
    CASE c = "0" -> 48 [] c = "1" -> 49 [] c = "2" -> 50 [] c = "3" -> 51
      [] c = "4" -> 52 [] c = "5" -> 53 [] c = "6" -> 54 [] c = "7" -> 55
      [] c = "8" -> 56 [] c = "9" -> 57 [] c = "@" -> 64 [] c = "a" -> 97
      [] c = "b" -> 98 [] c = "^2" -> 178]

DigitChars == {"0","1","2","3","4","5","6","7","8","9"}

\* the characters str.isdigit() accepts: the decimal digits and the digits
\* that form no base-10 number, such as the superscripts
IsDigitChars == DigitChars \cup {"^2"}

\* str.isdigit(): non-empty and every character a digit
isdigit(s) == Len(s) > 0 /\ \A i \in 1..Len(s) : s[i] \in IsDigitChars

\* int(s) of a digit string (leading zeros are dropped by the value)
RECURSIVE int(_)
int(s) == IF Len(s) = 0 THEN 0
          ELSE 10 * int(SubSeq(s, 1, Len(s) - 1)) + (CharCode[s[Len(s)]] - 48)

\* modulus of the hashed branch (10**18 in the source; the digest of the model
\* is short, so the reduction keeps every digest as it is)
HashModulus == 1000000000

\* stand-in for int(sha256(s).hexdigest(), 16): a deterministic digest of the
\* characters of s
RECURSIVE sha256_int(_)
sha256_int(s) == IF Len(s) = 0 THEN 0
                 ELSE 31 * sha256_int(SubSeq(s, 1, Len(s) - 1)) + CharCode[s[Len(s)]]

get_deterministic_id(source_id) ==
    IF isdigit(source_id) THEN int(source_id)
    ELSE sha256_int(source_id) % HashModulus

(***************************************************************************)
(* Fixed-point vector arithmetic.                                          *)
(***************************************************************************)
Dim == {1, 2}

Dot(a, b) == a[1] * b[1] + a[2] * b[2]

\* floor(sqrt(n)) by bisection on lo..hi
RECURSIVE ISqrtIn(_, _, _)
ISqrtIn(n, lo, hi) ==
    IF lo >= hi THEN lo
    ELSE LET mid == (lo + hi + 1) \div 2
         IN  IF mid * mid <= n THEN ISqrtIn(n, mid, hi) ELSE ISqrtIn(n, lo, mid - 1)

ISqrt(n) == ISqrtIn(n, 0, 46340)

\* x / y rounded to the nearest integer (y > 0)
RoundDiv(x, y) == (2 * x + y) \div (2 * y)

Abs(x) == IF x < 0 THEN -x ELSE x

\* str(n) of a non-negative int
RECURSIVE str(_)
str(n) == IF n < 10 THEN <<CHOOSE c \in DigitChars : CharCode[c] = 48 + n>>
          ELSE Append(str(n \div 10), CHOOSE c \in DigitChars : CharCode[c] = 48 + (n % 10))

\* Python values of a payload: None, a str, an int id, a number.  Two values are
\* equal when tag and content are; a str never equals an int.
PyNone == <<"none", <<>>>>
PyStr(s) == <<"str", s>>
PyInt(n) == <<"int", str(n)>>
PyNum(n) == <<"num", n>>
PyText(t) == <<"text", t>>

IsNone(x) == x[1] = "none"

\* truthiness: None, 0 and "" are falsy
Truthy(x) == CASE x[1] = "none" -> FALSE
               [] x[1] = "num" -> x[2] # 0
               [] x[1] = "str" -> x[2] # <<>>
               [] x[1] = "text" -> x[2] # ""
               [] OTHER -> TRUE

\* a or b
PyOr(a, b) == IF Truthy(a) THEN a ELSE b

(***************************************************************************)
(* The product collection (read-only for this core).  Each point has the   *)
(* id it was upserted under, its named vectors and its payload.            *)
(*   7   payload id "7", price 100, category given                         *)
(*   8   the opposite direction of 7; price only under final_price; no     *)
(*       category                                                          *)
(*   3   a third direction, payload id "3"                                 *)
(*   98  = get_deterministic_id("b"), payload id "b"                       *)
(*   97  a point whose payload carries no "id" (and no "row_id")           *)
(*   6   has no vector under VECTOR_NAME                                   *)
(*   5   has a price that float() rejects                                  *)
(***************************************************************************)
VECTOR_NAME == "text_dense"

Point(pid, payload_id, vector, price, final_price, category, rating) ==
    [id |-> pid, vector |-> [text_dense |-> vector],
     payload |-> [id |-> payload_id, price |-> price, final_price |-> final_price,
                  category |-> category, rating |-> rating]]

Catalog ==
    [pid \in {3, 5, 6, 7, 8, 97, 98} |->
       CASE pid = 7 -> Point(7, PyStr(<<"7">>), <<Scale, 0>>,
                             PyNum(100), PyNone, PyText("Shoes"), 4)
         [] pid = 8 -> Point(8, PyStr(<<"8">>), <<0 - Scale, 0>>,
                             PyNone, PyNum(40), PyNone, 5)
         [] pid = 3 -> Point(3, PyStr(<<"3">>), <<(3 * Scale) \div 5, (4 * Scale) \div 5>>,
                             PyNum(60), PyNone, PyText("Shoes"), 3)
         [] pid = 98 -> Point(98, PyStr(<<"b">>), <<0 - (4 * Scale) \div 5, (3 * Scale) \div 5>>,
                             PyNum(30), PyNone, PyText("Bags"), 2)
         [] pid = 97 -> Point(97, PyNone, <<0, Scale>>,
                             PyNum(20), PyNone, PyText("Bags"), 2)
         [] pid = 6 -> Point(6, PyStr(<<"6">>), <<>>,
                             PyNum(10), PyNone, PyText("Bags"), 1)
         [] pid = 5 -> Point(5, PyStr(<<"5">>), <<Scale, 0>>,
                             PyStr(<<"b", "a", "d">>), PyNone, PyText("Bags"), 1)]

\* client.retrieve(collection_name=PRODUCT_COLLECTION, ids=[pid], ...)
retrieve(pid) == IF pid \in DOMAIN Catalog THEN <<Catalog[pid]>> ELSE <<>>

(***************************************************************************)
(* capture_interaction, step 1: the catalog lookup (lines 39-72).          *)
(* raises is TRUE when the store call fails.  The result says whether the  *)
(* handler goes on (ok) and with which vector, price and category.         *)
(***************************************************************************)
NoProduct == [ok |-> FALSE, vector |-> <<>>, price |-> 0, category |-> "General"]

\* float(x) raises for a str that is no number (the model's only such str is "bad")
FloatRaises(x) == x[1] = "str"

\* (variant: a missing point or vector is replaced by defaults and the update
\* goes on)
lookup_product_lenient(product_id, raises) ==
    LET pid == get_deterministic_id(product_id)
        product_points == retrieve(pid)
    IN  IF raises \/ product_points = <<>> \/ product_points[1].vector[VECTOR_NAME] = <<>>
        THEN [ok |-> TRUE, vector |-> <<0, 0>>, price |-> 0, category |-> "General"]
        ELSE LET product == product_points[1]
                 raw_price == PyOr(PyOr(product.payload.price, product.payload.final_price),
                                   PyNum(0))
                 raw_category == PyOr(product.payload.category, PyText("General"))
             IN  IF FloatRaises(raw_price) THEN NoProduct
                 ELSE [ok |-> TRUE, vector |-> product.vector[VECTOR_NAME],
                       price |-> raw_price[2], category |-> raw_category[2]]

lookup_product(product_id, raises) ==
    IF raises THEN NoProduct
    ELSE LET pid == get_deterministic_id(product_id)
             product_points == retrieve(pid)
         IN  IF product_points = <<>> THEN NoProduct
             ELSE LET product == product_points[1]
                      product_vector == product.vector[VECTOR_NAME]
                      raw_price == PyOr(PyOr(product.payload.price, product.payload.final_price),
                                        PyNum(0))
                      raw_category == PyOr(product.payload.category, PyText("General"))
                  IN  IF product_vector = <<>> THEN NoProduct
                      ELSE IF FloatRaises(raw_price) THEN NoProduct
                      ELSE [ok |-> TRUE, vector |-> product_vector, price |-> raw_price[2],
                            category |-> raw_category[2]]

(***************************************************************************)
(* The users collection: points keyed by point id, created with            *)
(* Distance.COSINE (core/database.py, ensure_collection).  A cosine        *)
(* collection stores every vector normalised to unit length; a vector of   *)
(* length zero, or one that already is of unit length, is stored as given. *)
(***************************************************************************)
SumSq(v) == Dot(v, v)

\* tolerance of "unit length" at the model's resolution
UnitTol == 2 * Scale

IsUnit(v) == Abs(SumSq(v) - Scale * Scale) <= UnitTol

cosine_preprocess(v) ==
    IF SumSq(v) = 0 \/ IsUnit(v) THEN v
    ELSE LET n10 == ISqrt(100 * SumSq(v))
         IN  [i \in Dim |-> RoundDiv(v[i] * Scale * 10, n10)]

\* client.upsert(collection_name=USER_COLLECTION, points=[PointStruct(...)])
upsert(store, point) ==
    [i \in DOMAIN store \cup {point.id} |->
        IF i = point.id THEN [point EXCEPT !.vector = cosine_preprocess(point.vector)]
        ELSE store[i]]

\* client.scroll(USER_COLLECTION, filter user_email == email, limit=1)[0]:
\* the matching points in id order, at most one of them
scroll_user(store, email) ==
    LET hits == {i \in DOMAIN store : store[i].payload.user_email = email}
    IN  IF hits = {} THEN <<>>
        ELSE <<store[CHOOSE i \in hits : \A j \in hits : i <= j]>>

(***************************************************************************)
(* capture_interaction, steps 2 and 3 (lines 74-148).                      *)
(***************************************************************************)
\* INTERACTION_WEIGHTS, in tenths
INTERACTION_WEIGHTS == [view |-> 1, wishlist |-> 3, cart |-> 5, purchase |-> 10]

\* INTERACTION_WEIGHTS.get(interaction_type, 0.1)
weight_of(interaction_type) ==
    IF interaction_type \in DOMAIN INTERACTION_WEIGHTS
    THEN INTERACTION_WEIGHTS[interaction_type] ELSE 1

\* money is kept in units of 1/BudgetDen: every factor of the budget rules and
\* every halving of a purchase in a behaviour of the model is exact
BudgetDen == 20 * (2 ^ (MaxCalls + 3))

Money(tenths, price) == (tenths * price * BudgetDen) \div 10

\* history[-20:]
HistoryLimit == 20

LastN(seq, n) == IF Len(seq) <= n THEN seq ELSE SubSeq(seq, Len(seq) - n + 1, Len(seq))

\* (variant: the first budget as wide as the one of an update)
cold_start_point_wide(user_email, interaction_type, product_id, prod, ts) ==
    [id |-> get_deterministic_id(user_email),
     vector |-> prod.vector,
     payload |-> [user_email |-> user_email,
                  budget |-> [min |-> Money(5, prod.price), max |-> Money(15, prod.price),
                              confidence |-> 30],
                  preferred_categories |-> [c \in {prod.category} |-> 1],
                  interactions |-> <<[id |-> PyStr(product_id), type |-> interaction_type,
                                      ts |-> ts]>>,
                  last_updated |-> ts]]

\* lines 89-100: cold start for this user
cold_start_point(user_email, interaction_type, product_id, prod, ts) ==
    [id |-> get_deterministic_id(user_email),
     vector |-> prod.vector,
     payload |-> [user_email |-> user_email,
                  budget |-> [min |-> Money(7, prod.price), max |-> Money(13, prod.price),
                              confidence |-> 30],
                  preferred_categories |-> [c \in {prod.category} |-> 1],
                  interactions |-> <<[id |-> PyStr(product_id), type |-> interaction_type,
                                      ts |-> ts]>>,
                  last_updated |-> ts]]

Min(a, b) == IF a <= b THEN a ELSE b
Max(a, b) == IF a >= b THEN a ELSE b

\* (variant: the confidence added without the cap)
updated_budget_uncapped(budget, interaction_type, product_price) ==
    IF interaction_type = "purchase"
    THEN [min |-> (budget.min + Money(7, product_price)) \div 2,
          max |-> (budget.max + Money(15, product_price)) \div 2,
          confidence |-> budget.confidence + 20]
    ELSE [min |-> Min(budget.min, Money(5, product_price)),
          max |-> Max(budget.max, Money(15, product_price)),
          confidence |-> budget.confidence + 5]

\* (variant: the two purchase targets exchanged)
updated_budget_swapped(budget, interaction_type, product_price) ==
    IF interaction_type = "purchase"
    THEN [min |-> (budget.min + Money(15, product_price)) \div 2,
          max |-> (budget.max + Money(7, product_price)) \div 2,
          confidence |-> Min(budget.confidence + 20, 100)]
    ELSE [min |-> Min(budget.min, Money(5, product_price)),
          max |-> Max(budget.max, Money(15, product_price)),
          confidence |-> Min(budget.confidence + 5, 100)]

\* lines 109-120: the budget rule
updated_budget(budget, interaction_type, product_price) ==
    IF interaction_type = "purchase"
    THEN [min |-> (budget.min + Money(7, product_price)) \div 2,
          max |-> (budget.max + Money(15, product_price)) \div 2,
          confidence |-> Min(budget.confidence + 20, 100)]
    ELSE [min |-> Min(budget.min, Money(5, product_price)),
          max |-> Max(budget.max, Money(15, product_price)),
          confidence |-> Min(budget.confidence + 5, 100)]

\* (variant: the map rebuilt as on a cold start)
updated_categories_reset(cats, product_category) ==
    [c \in {product_category} |-> 1]

\* lines 122-124: cats[product_category] = cats.get(product_category, 0) + 1
updated_categories(cats, product_category) ==
    [c \in DOMAIN cats \cup {product_category} |->
        (IF c \in DOMAIN cats THEN cats[c] ELSE 0) + (IF c = product_category THEN 1 ELSE 0)]

\* (variant: truncated before the append)
updated_history_early_cut(history, product_id, interaction_type, ts) ==
    Append(LastN(history, HistoryLimit),
           [id |-> PyStr(product_id), type |-> interaction_type, ts |-> ts])

\* (variant: a history over the limit cut to what lies beyond the limit,
\* interactions[20:] for interactions[-20:])
updated_history_beyond_limit(history, product_id, interaction_type, ts) ==
    LET appended == Append(history, [id |-> PyStr(product_id), type |-> interaction_type,
                                     ts |-> ts])
    IN  IF Len(appended) > HistoryLimit
        THEN SubSeq(appended, HistoryLimit + 1, Len(appended))
        ELSE appended

\* lines 126-129: append and keep the last 20
updated_history(history, product_id, interaction_type, ts) ==
    LastN(Append(history, [id |-> PyStr(product_id), type |-> interaction_type, ts |-> ts]),
          HistoryLimit)

\* line 105: new_vec = old_vec * (1 - w) + prod_vec * w
weighted_vector(old_vector, product_vector, weight) ==
    [i \in Dim |-> RoundDiv(old_vector[i] * (10 - weight) + product_vector[i] * weight, 10)]

\* (variant: the update written under an id of its own instead of the id of
\* the point that was read)
updated_point_rekeyed(user_profile, interaction_type, product_id, prod, ts) ==
    [id |-> user_profile.id + 1,
     vector |-> weighted_vector(user_profile.vector, prod.vector, weight_of(interaction_type)),
     payload |-> [user_profile.payload EXCEPT
                    !.budget = updated_budget(@, interaction_type, prod.price),
                    !.preferred_categories = updated_categories(@, prod.category),
                    !.interactions = updated_history(@, product_id, interaction_type, ts),
                    !.last_updated = ts]]

\* lines 101-136: update of the profile point that the scroll returned
updated_point(user_profile, interaction_type, product_id, prod, ts) ==
    [id |-> user_profile.id,
     vector |-> weighted_vector(user_profile.vector, prod.vector, weight_of(interaction_type)),
     payload |-> [user_profile.payload EXCEPT
                    !.budget = updated_budget(@, interaction_type, prod.price),
                    !.preferred_categories = updated_categories(@, prod.category),
                    !.interactions = updated_history(@, product_id, interaction_type, ts),
                    !.last_updated = ts]]

\* lines 85-136: the point that capture_interaction upserts, given what the
\* scroll returned
new_point(user_points, user_email, interaction_type, product_id, prod, ts) ==
    IF user_points = <<>>
    THEN cold_start_point(user_email, interaction_type, product_id, prod, ts)
    ELSE updated_point(user_points[1], interaction_type, product_id, prod, ts)

(***************************************************************************)
(* Retrieval adapter (core/qdrant_ops.py) as the hybrid scorer uses it.    *)
(* Scores are in units of 1/(10*Scale).                                    *)
(***************************************************************************)
\* the members of a set of integers, in ascending order
RECURSIVE Ascending(_)
Ascending(S) ==
    IF S = {} THEN <<>>
    ELSE LET m == CHOOSE x \in S : \A y \in S : x <= y
         IN  <<m>> \o Ascending(S \ {m})

\* the place of index i when the indexes of keys are put in descending order
\* of key, equal keys keeping their order
Place(keys, i) ==
    1 + Cardinality({j \in 1..Len(keys) : keys[j] > keys[i] \/ (keys[j] = keys[i] /\ j < i)})

\* the items of seq by descending keys[i], the key of seq[i]
\* (list.sort(key=..., reverse=True) and sorted(..., reverse=True))
SortDesc(seq, keys) ==
    [k \in 1..Len(seq) |-> seq[CHOOSE i \in 1..Len(seq) : Place(keys, i) = k]]

FirstN(seq, n) == IF Len(seq) <= n THEN seq ELSE SubSeq(seq, 1, n)

LastOf(seq, n) == LastN(seq, n)

\* cosine similarity of a query with a stored unit vector
Cosine(q, v) == RoundDiv(10 * Dot(q, v), Scale)

\* map_qdrant_product, price: the first of final_price, price that is set and parses
mapped_price(payload) ==
    IF Truthy(payload.final_price) /\ payload.final_price[1] = "num" THEN payload.final_price[2]
    ELSE IF Truthy(payload.price) /\ payload.price[1] = "num" THEN payload.price[2]
    ELSE 0

\* map_qdrant_product: the fields of the product record the scorer reads;
\* "id" is payload.get("id", payload.get("row_id", point.id))
map_qdrant_product(point, score) ==
    [id |-> IF IsNone(point.payload.id) THEN PyInt(point.id) ELSE point.payload.id,
     price |-> mapped_price(point.payload),
     score |-> score,
     rating |-> point.payload.rating,
     recommendation_source |-> "",
     personal_score |-> 0,
     collaborative_score |-> 0,
     liked_by_similar_users |-> 0,
     final_score |-> 0,
     sources |-> <<>>,
     explanation |-> ""]

\* search_products without MMR: the nearest `limit` points that have the named
\* vector and whose payload "price" lies in the range gte..lte of the filter,
\* given as twice gte and half of lte in money units (no_upper: lte = 1e9)
search_products(query_vector, limit, twice_gte, half_lte, no_upper) ==
    LET hits == {i \in DOMAIN Catalog :
                    /\ Catalog[i].vector[VECTOR_NAME] # <<>>
                    /\ Catalog[i].payload.price[1] = "num"
                    /\ 2 * Catalog[i].payload.price[2] * BudgetDen >= twice_gte
                    /\ (no_upper \/ Catalog[i].payload.price[2] * BudgetDen <= 2 * half_lte)}
        ScoreOf(i) == Cosine(query_vector, Catalog[i].vector[VECTOR_NAME])
        points == Ascending(hits)
        order == SortDesc(points, [k \in 1..Len(points) |-> ScoreOf(points[k])])
    IN  [k \in 1..Min(limit, Len(order)) |->
            map_qdrant_product(Catalog[order[k]], ScoreOf(order[k]))]

(***************************************************************************)
(* Hybrid scorer (services/collaborative_recommendation.py).               *)
(* A request carries budget_max and budget_min: PyNone or PyNum(amount).   *)
(***************************************************************************)
\* WEIGHT_PERSONAL, WEIGHT_COLLABORATIVE, in hundredths
WEIGHT_PERSONAL == 40
WEIGHT_COLLABORATIVE == 60

\* lines 112-169; raises: the vector search fails
get_personal_recommendations(user_profile, limit, budget_max, budget_min, raises) ==
    IF raises THEN <<>>
    ELSE LET budget == user_profile.payload.budget
             price_min == IF IsNone(budget_min) THEN budget.min ELSE budget_min[2] * BudgetDen
             price_max == IF IsNone(budget_max) THEN budget.max ELSE budget_max[2] * BudgetDen
             personalized == search_products(user_profile.vector, limit,
                                             Max(0, price_min), price_max, price_max = 0)
         IN  [k \in 1..Len(personalized) |->
                 [personalized[k] EXCEPT !.recommendation_source = "personal",
                                         !.personal_score = personalized[k].score]]

\* client.search(USER_COLLECTION, query_vector, limit): the nearest points with
\* their similarity
search_users(store, query_vector, limit) ==
    LET ScoreOf(i) == Cosine(query_vector, store[i].vector)
        points == Ascending(DOMAIN store)
        order == SortDesc(points, [k \in 1..Len(points) |-> ScoreOf(points[k])])
    IN  [k \in 1..Min(limit, Len(order)) |->
            [score |-> ScoreOf(order[k]), payload |-> store[order[k]].payload]]

\* lines 212-217, in tenths
type_weight(interaction_type) ==
    CASE interaction_type = "purchase" -> 10
      [] interaction_type = "cart" -> 7
      [] interaction_type = "wishlist" -> 5
      [] interaction_type = "view" -> 2
      [] OTHER -> 1

SimilarUsersLimit == 20
RecentInteractions == 10

\* lines 187-191: the similar users, the requesting user filtered out
similar_users_of(store, user_email, user_vector) ==
    LET found == search_users(store, user_vector, SimilarUsersLimit + 1)
        Other(u) == u.payload.user_email # user_email
    IN  FirstN(SelectSeq(found, Other), SimilarUsersLimit)

\* lines 202-231: product_scores, a dict in insertion order, as a sequence of
\* [product_id, score, count, similarity_sum]
RECURSIVE product_scores_of(_, _)
product_scores_of(similar_users, n) ==
    \* the entries after the first n similar users
    IF n = 0 THEN <<>>
    ELSE LET u == similar_users[n]
             recent == LastOf(u.payload.interactions, RecentInteractions)
             AddAll[k \in 0..Len(recent)] ==
                 IF k = 0 THEN product_scores_of(similar_users, n - 1)
                 ELSE LET it == recent[k]
                          score == u.score * type_weight(it.type)
                          Added(acc) ==
                              LET at == {j \in 1..Len(acc) : acc[j].product_id = it.id}
                              IN  IF at = {}
                                  THEN Append(acc, [product_id |-> it.id, score |-> score,
                                                    count |-> 1, similarity_sum |-> u.score])
                                  ELSE [j \in 1..Len(acc) |->
                                           IF j \in at
                                           THEN [acc[j] EXCEPT !.score = @ + score,
                                                               !.count = @ + 1,
                                                               !.similarity_sum = @ + u.score]
                                           ELSE acc[j]]
                      IN  CHOOSE next \in {Added(acc) : acc \in {AddAll[k - 1]}} : TRUE
         IN  AddAll[Len(recent)]

\* (variant: the mean contribution without the popularity factor)
collaborative_score_plain(data, n_similar) == RoundDiv(data.score, 10 * data.count)

\* lines 252-254: (score / count) * (1 + count / len(similar_users)); the
\* accumulated score is in units of 1/(100*Scale), the result in 1/(10*Scale)
collaborative_score(data, n_similar) ==
    RoundDiv(data.score * (n_similar + data.count), 10 * data.count * n_similar)

\* lines 171-274; similar_raises: the user search fails; retrieve_raises: the
\* retrieve of every product fails
get_collaborative_recommendations(store, user_email, user_vector, limit, similar_raises, retrieve_raises) ==
    LET Found(d) == ~retrieve_raises /\ retrieve(get_deterministic_id(d.product_id[2])) # <<>>
        Recommendations(kept, n_similar) ==
            [k \in 1..Len(kept) |->
                LET final_score == collaborative_score(kept[k], n_similar)
                    product == map_qdrant_product(
                                   retrieve(get_deterministic_id(kept[k].product_id[2]))[1], 0)
                IN  [product EXCEPT !.recommendation_source = "collaborative",
                                    !.collaborative_score = final_score,
                                    !.liked_by_similar_users = kept[k].count,
                                    !.score = final_score]]
        Sorted(recommendations) ==
            FirstN(SortDesc(recommendations,
                            [k \in 1..Len(recommendations) |-> recommendations[k].score]), limit)
        \* lines 202-262, on the similar users once they are found
        Scored(similar_users) ==
            IF similar_users = <<>> THEN <<>>
            ELSE CHOOSE sorted \in
                     {Sorted(recommendations) :
                         recommendations \in
                             {Recommendations(kept, Len(similar_users)) :
                                 kept \in {SelectSeq(product_scores_of(similar_users,
                                                                      Len(similar_users)),
                                                     Found)}}} : TRUE
    IN  IF similar_raises THEN <<>>
        ELSE CHOOSE sorted \in
                 {Scored(similar_users) :
                     similar_users \in {similar_users_of(store, user_email, user_vector)}} : TRUE

\* lines 284-288
viewed_products(user_payload) ==
    {user_payload.interactions[k].id : k \in 1..Len(user_payload.interactions)}

IndexOfId(product_map, id) ==
    LET at == {j \in 1..Len(product_map) : product_map[j].id = id}
    IN  IF at = {} THEN 0 ELSE CHOOSE j \in at : TRUE

\* lines 294-301: product_map after the first n personal recommendations
RECURSIVE add_personal(_, _, _)
add_personal(personal_recs, n, viewed) ==
    IF n = 0 THEN <<>>
    ELSE LET rec == personal_recs[n]
             entry == [rec EXCEPT !.final_score = rec.personal_score * WEIGHT_PERSONAL,
                                  !.sources = <<"personal">>]
             Added(product_map) ==
                 LET at == IndexOfId(product_map, rec.id)
                 IN  IF rec.id \in viewed THEN product_map
                     ELSE IF at = 0 THEN Append(product_map, entry)
                     ELSE [product_map EXCEPT ![at] = entry]
         IN  CHOOSE next \in {Added(product_map) :
                                 product_map \in {add_personal(personal_recs, n - 1, viewed)}} : TRUE

RECURSIVE add_collaborative(_, _, _, _)

\* (variant: a collaborative record is added beside the personal record of
\* its item)
add_collaborative_append(start_map, collaborative_recs, n, viewed) ==
    IF n = 0 THEN start_map
    ELSE LET rec == collaborative_recs[n]
             entry == [rec EXCEPT !.final_score = rec.collaborative_score * WEIGHT_COLLABORATIVE,
                                  !.sources = <<"collaborative">>]
             Added(product_map) ==
                 IF rec.id \in viewed THEN product_map ELSE Append(product_map, entry)
         IN  CHOOSE next \in {Added(product_map) :
                     product_map \in {add_collaborative(start_map, collaborative_recs, n - 1,
                                                        viewed)}} : TRUE

\* (variant: an item of both lists takes the collaborative term alone)
add_collaborative_overwrite(start_map, collaborative_recs, n, viewed) ==
    IF n = 0 THEN start_map
    ELSE LET rec == collaborative_recs[n]
             entry == [rec EXCEPT !.final_score = rec.collaborative_score * WEIGHT_COLLABORATIVE,
                                  !.sources = <<"collaborative">>]
             Added(product_map) ==
                 LET at == IndexOfId(product_map, rec.id)
                 IN  IF rec.id \in viewed THEN product_map
                     ELSE IF at # 0
                     THEN [product_map EXCEPT
                             ![at] = [entry EXCEPT !.sources = <<"personal", "collaborative">>]]
                     ELSE Append(product_map, entry)
         IN  CHOOSE next \in {Added(product_map) :
                     product_map \in {add_collaborative(start_map, collaborative_recs, n - 1,
                                                        viewed)}} : TRUE

\* lines 304-317: product_map after the first n collaborative recommendations
add_collaborative(start_map, collaborative_recs, n, viewed) ==
    IF n = 0 THEN start_map
    ELSE LET rec == collaborative_recs[n]
             Added(product_map) ==
                 LET at == IndexOfId(product_map, rec.id)
                 IN  IF rec.id \in viewed THEN product_map
                     ELSE IF at # 0
                     THEN [product_map EXCEPT
                             ![at].final_score = @ + rec.collaborative_score * WEIGHT_COLLABORATIVE,
                             ![at].sources = Append(@, "collaborative"),
                             ![at].liked_by_similar_users = rec.liked_by_similar_users]
                     ELSE Append(product_map,
                                 [rec EXCEPT
                                     !.final_score = rec.collaborative_score * WEIGHT_COLLABORATIVE,
                                     !.sources = <<"collaborative">>])
         IN  CHOOSE next \in {Added(product_map) :
                     product_map \in {add_collaborative(start_map, collaborative_recs, n - 1,
                                                        viewed)}} : TRUE

\* (variant: the candidates are left in the order they were collected)
combine_recommendations_unsorted(personal_recs, collaborative_recs, user_payload) ==
    LET viewed == viewed_products(user_payload)
    IN  add_collaborative(add_personal(personal_recs, Len(personal_recs), viewed),
                          collaborative_recs, Len(collaborative_recs), viewed)

\* lines 276-323
combine_recommendations(personal_recs, collaborative_recs, user_payload) ==
    LET viewed == viewed_products(user_payload)
        product_map == add_collaborative(add_personal(personal_recs, Len(personal_recs), viewed),
                                         collaborative_recs, Len(collaborative_recs), viewed)
    IN  SortDesc(product_map, [k \in 1..Len(product_map) |-> product_map[k].final_score])

Has(seq, x) == \E k \in 1..Len(seq) : seq[k] = x

\* lines 325-338
generate_explanation(recommendation) ==
    IF Has(recommendation.sources, "collaborative") /\ Has(recommendation.sources, "personal")
    THEN "both"
    ELSE IF Has(recommendation.sources, "collaborative") THEN "similar users"
    ELSE IF Has(recommendation.sources, "personal") THEN "preferences"
    ELSE "recommended"

\* what a call gives its caller: a list, or an exception
Ok(list) == [raised |-> FALSE, value |-> list]
Raised == [raised |-> TRUE, value |-> <<>>]

\* (variant: the fallback lets the exception through)
trending_reraise(outcome) == outcome

\* lines 374-376: except Exception: return []
trending_except(outcome) == IF outcome.raised THEN Ok(<<>>) ELSE outcome

\* lines 340-376; raises: the scroll of the product collection fails
get_trending_products(limit, budget_max, budget_min, raises) ==
    LET points == Ascending(DOMAIN Catalog)
        products == [k \in 1..Len(points) |-> map_qdrant_product(Catalog[points[k]], 0)]
        UnderMax(r) == IsNone(budget_max) \/ r.price <= budget_max[2]
        OverMin(r) == IsNone(budget_min) \/ r.price >= budget_min[2]
        affordable == SelectSeq(SelectSeq(products, UnderMax), OverMin)
        trending == SortDesc(affordable, [k \in 1..Len(affordable) |-> affordable[k].rating])
    IN  trending_except(
            IF raises THEN Raised
            ELSE Ok([k \in 1..Min(limit, Len(trending)) |->
                        [trending[k] EXCEPT !.explanation = "popular",
                                            !.sources = <<"trending">>]]))

\* the interaction count from which the hybrid strategy is used (line 77)
HybridThreshold == 3

\* (variant: the threshold compared with <=)
is_cold_start_inclusive(interaction_count) == interaction_count <= HybridThreshold

\* line 77: if interaction_count < 3
is_cold_start(interaction_count) == interaction_count < HybridThreshold

\* the operations of the vector store that a request can find failing
FaultOps == {"scroll", "personal", "similar", "retrieve", "trending"}

\* lines 30-110: what the request returns (outcome) and which retrievals it
\* ran: personal_limit is the limit of the personal retrieval (0: not run)
get_recommendations_with_collaborative(store, user_email, limit, budget_max, budget_min, faults) ==
    LET trending == get_trending_products(limit, budget_max, budget_min, "trending" \in faults)
        user_points == scroll_user(store, user_email)
        user_profile == user_points[1]
        interaction_count == Len(user_profile.payload.interactions)
        cold == get_personal_recommendations(user_profile, limit, budget_max, budget_min,
                                             "personal" \in faults)
        personal_recs == get_personal_recommendations(user_profile, limit * 2, budget_max,
                                                      budget_min, "personal" \in faults)
        found == get_collaborative_recommendations(store, user_email, user_profile.vector,
                                                   limit * 2, "similar" \in faults,
                                                   "retrieve" \in faults)
        UnderMax(r) == IsNone(budget_max) \/ r.price <= budget_max[2]
        OverMin(r) == IsNone(budget_min) \/ r.price >= budget_min[2]
        collaborative_recs == SelectSeq(SelectSeq(found, UnderMax), OverMin)
        Explained(combined) ==
            [k \in 1..Len(combined) |->
                [combined[k] EXCEPT !.explanation = generate_explanation(combined[k])]]
        Ran(outcome, personal_limit, collaborative, fallback, p_recs, c_recs, c_all) ==
            [outcome |-> outcome, personal_limit |-> personal_limit,
             collaborative |-> collaborative, trending |-> fallback,
             personal_recs |-> p_recs, collaborative_recs |-> c_recs, combined_recs |-> c_all]
        \* lines 96-106, on the two lists once they are computed
        Combined(p_recs, c_recs) ==
            CHOOSE ran \in {Ran(Ok(FirstN(explained, limit)), limit * 2, TRUE, FALSE,
                                p_recs, c_recs, explained) :
                               explained \in {Explained(combine_recommendations(
                                                  p_recs, c_recs, user_profile.payload))}} : TRUE
    IN  IF "scroll" \in faults THEN Ran(trending, 0, FALSE, TRUE, <<>>, <<>>, <<>>)
        ELSE IF user_points = <<>> THEN Ran(trending, 0, FALSE, TRUE, <<>>, <<>>, <<>>)
        ELSE IF is_cold_start(interaction_count)
             THEN Ran(Ok(cold), limit, FALSE, FALSE, cold, <<>>, <<>>)
        ELSE CHOOSE ran \in {Combined(p_recs, c_recs) :
                                 p_recs \in {personal_recs}, c_recs \in {collaborative_recs}} : TRUE

\* api/recommendations.py lines 356-368: the strategy the route reports for a
\* non-empty list, read from the "sources" of its first record (a record
\* without the key gives [])
strategy_of(recommendations) ==
    LET sources == recommendations[1].sources
    IN  IF Has(sources, "collaborative") THEN "hybrid (personal + collaborative)"
        ELSE IF Has(sources, "personal") THEN "personal (cold start)"
        ELSE IF Has(sources, "trending") THEN "trending (fallback)"
        ELSE "trending (fallback)"

(***************************************************************************)
(* Seed-based recommendations (api/recommendations.py,                     *)
(* _recommendations_by_seed_impl).  Weights are in halves.                 *)
(***************************************************************************)
\* line 116: (raw_ids or [])[:50]
SeedCap == 50

\* get_embedding(search_query.strip()): the vector of the model's query text
TextVector == <<(3 * Scale) \div 5, 0 - (4 * Scale) \div 5>>

\* (variant: any str counts as a query text)
NonBlank_unstripped(search_query) == ~IsNone(search_query)

\* search_query and search_query.strip(): the query is a str with a character
\* that is no blank
NonBlank(search_query) ==
    /\ ~IsNone(search_query)
    /\ \E k \in 1..Len(search_query[2]) : search_query[2][k] # " "

\* line 130: 2.0 in the cart, else 1.5 in the wishlist, else 1.0
seed_weight(pid_str, cart_ids, wishlist_ids) ==
    IF pid_str \in cart_ids THEN 4 ELSE IF pid_str \in wishlist_ids THEN 3 ELSE 2

\* lines 116-135: the seed ids that resolve to a point with the named vector,
\* in order; a failing retrieve skips the id
resolved_seeds(raw_ids, retrieve_raises) ==
    LET Resolves(pid_str) ==
            /\ ~retrieve_raises
            /\ retrieve(get_deterministic_id(pid_str)) # <<>>
            /\ retrieve(get_deterministic_id(pid_str))[1].vector[VECTOR_NAME] # <<>>
    IN  SelectSeq(FirstN(raw_ids, SeedCap), Resolves)

\* lines 114-142: the list `weighted` of (vector, weight) pairs
weighted_seeds(raw_ids, search_query, cart_ids, wishlist_ids, retrieve_raises, embed_raises) ==
    LET seeds == resolved_seeds(raw_ids, retrieve_raises)
        of_ids == [k \in 1..Len(seeds) |->
                     [v |-> retrieve(get_deterministic_id(seeds[k]))[1].vector[VECTOR_NAME],
                      w |-> seed_weight(seeds[k], cart_ids, wishlist_ids)]]
    IN  IF NonBlank(search_query) /\ ~embed_raises
        THEN Append(of_ids, [v |-> TextVector, w |-> 3])
        ELSE of_ids

RECURSIVE SumSeq(_)
SumSeq(seq) == IF seq = <<>> THEN 0 ELSE Head(seq) + SumSeq(Tail(seq))

\* lines 145-148: np.average(vectors, axis=0, weights=weights); the weights
\* are positive, so total_w > 0
avg_vector(weighted) ==
    LET total_w == SumSeq([k \in 1..Len(weighted) |-> weighted[k].w])
    IN  [d \in Dim |->
            RoundDiv(SumSeq([k \in 1..Len(weighted) |-> weighted[k].w * weighted[k].v[d]]),
                     total_w)]

\* search_products with the filter of lines 149-154: the nearest `limit` points
\* that have the named vector and whose payload "id" is none of raw_ids
search_products_without(query_vector, limit, raw_ids) ==
    LET hits == {i \in DOMAIN Catalog :
                    /\ Catalog[i].vector[VECTOR_NAME] # <<>>
                    /\ \A k \in 1..Len(raw_ids) : Catalog[i].payload.id # PyStr(raw_ids[k])}
        \* the cosine collection scores against the query scaled to unit length
        ScoreOf(i) == Cosine(cosine_preprocess(query_vector), Catalog[i].vector[VECTOR_NAME])
        points == Ascending(hits)
        order == SortDesc(points, [k \in 1..Len(points) |-> ScoreOf(points[k])])
    IN  [k \in 1..Min(limit, Len(order)) |->
            map_qdrant_product(Catalog[order[k]], ScoreOf(order[k]))]

\* lines 132-133 and 163: seed_str, the str() of every member of seed_ids_set
seed_str_of(seeds) ==
    {seeds[k] : k \in 1..Len(seeds)} \cup {str(get_deterministic_id(seeds[k])) : k \in 1..Len(seeds)}

\* lines 164-177: the records whose id is no seed and was not seen before
kept_recs(recs, seed_str) ==
    LET Keep(k) == /\ recs[k].id[2] \notin seed_str
                   /\ \A j \in 1..(k - 1) : recs[j].id[2] \in seed_str \/ recs[j].id # recs[k].id
        kept == SelectSeq([k \in 1..Len(recs) |-> k], Keep)
    IN  [k \in 1..Len(kept) |-> recs[kept[k]]]

\* the store operations a by-seed request can find failing
SeedFaultOps == {"retrieve", "embed", "search"}

\* lines 95-178: what the call gives (outcome), the list `weighted`, the query
\* vector, and whether the store was searched for neighbours
recommendations_by_seed_impl(raw_ids, search_query, limit, cart_ids, wishlist_ids, faults) ==
    LET weighted == weighted_seeds(raw_ids, search_query, cart_ids, wishlist_ids,
                                   "retrieve" \in faults, "embed" \in faults)
        query == avg_vector(weighted)
        recs == search_products_without(query, limit + Len(raw_ids) + 5, raw_ids)
        seed_str == seed_str_of(resolved_seeds(raw_ids, "retrieve" \in faults))
        out == FirstN(kept_recs(recs, seed_str), limit)
        Did(outcome, list, vector, searched) ==
            [outcome |-> outcome, weighted |-> list, query_vector |-> vector,
             searched |-> searched]
    IN  IF raw_ids = <<>> /\ ~NonBlank(search_query) THEN Did(Ok(<<>>), <<>>, <<>>, FALSE)
        ELSE IF weighted = <<>> THEN Did(Ok(<<>>), <<>>, <<>>, FALSE)
        ELSE IF "search" \in faults THEN Did(Raised, weighted, query, TRUE)
        ELSE Did(Ok([k \in 1..Len(out) |->
                        [out[k] EXCEPT !.explanation = "by-seed", !.sources = <<"by-seed">>]]),
                 weighted, query, TRUE)

(***************************************************************************)
(* Brand-diversity re-ranking (core/qdrant_ops.py, rerank_by_brand_        *)
(* diversity; src/qdrant.py holds the same function).  An item is a record *)
(* with the "brand" (a str, as a sequence of characters) and the "score"   *)
(* of a mapped product.                                                    *)
(***************************************************************************)
\* str.strip() for the blank of the model
RECURSIVE strip(_)
strip(s) ==
    IF s = <<>> THEN s
    ELSE IF s[1] = " " THEN strip(Tail(s))
    ELSE IF s[Len(s)] = " " THEN strip(SubSeq(s, 1, Len(s) - 1))
    ELSE s

\* str.lower() for the letters of the model
lower(s) == [k \in 1..Len(s) |-> IF s[k] = "A" THEN "a" ELSE IF s[k] = "B" THEN "b" ELSE s[k]]

\* lines 361-363 and 383-385: item.get("brand", "").strip().lower(), "unknown"
\* when that is empty
normalized_brand(item) ==
    IF lower(strip(item.brand)) = <<>> THEN <<"u", "n", "k", "n", "o", "w", "n">>
    ELSE lower(strip(item.brand))

\* (variant: the first of idxs, whatever the scores)
first_listed(remaining, idxs) == CHOOSE i \in idxs : \A j \in idxs : i <= j

\* (variant: a later item of the same score replaces the best)
last_best(remaining, idxs) ==
    CHOOSE i \in idxs : \A j \in idxs :
        remaining[j].score < remaining[i].score \/ (remaining[j].score = remaining[i].score /\ j <= i)

\* the first index of idxs whose item has the highest score (the loops of
\* lines 360-371 and 376-379 replace the best only by a strictly higher score)
first_best(remaining, idxs) ==
    CHOOSE i \in idxs : \A j \in idxs :
        remaining[j].score < remaining[i].score \/ (remaining[j].score = remaining[i].score /\ i <= j)

\* (variant: the best score is taken whatever the brand)
best_idx_by_score(remaining, last_brand) == first_best(remaining, 1..Len(remaining))

\* lines 355-380: the index chosen in `remaining`: the best item of another
\* brand than last_brand (None before the first choice), and when there is
\* none, the best item of all
best_idx(remaining, last_brand) ==
    LET others == {i \in 1..Len(remaining) : PyStr(normalized_brand(remaining[i])) # last_brand}
    IN  IF others # {} THEN first_best(remaining, others)
        ELSE first_best(remaining, 1..Len(remaining))

\* (variant: the item appended is the head of `remaining`)
best_item_head(remaining, idx) == remaining[1]

\* lines 369, 380: best_item
best_item(remaining, idx) == remaining[idx]

\* line 386: remaining.pop(best_idx)
pop(remaining, idx) == SubSeq(remaining, 1, idx - 1) \o SubSeq(remaining, idx + 1, Len(remaining))

\* lines 355-386: the while loop
RECURSIVE rerank_loop(_, _, _)
rerank_loop(remaining, last_brand, reranked) ==
    IF remaining = <<>> THEN reranked
    ELSE LET idx == best_idx(remaining, last_brand)
         IN  rerank_loop(pop(remaining, idx),
                         PyStr(normalized_brand(best_item(remaining, idx))),
                         Append(reranked, best_item(remaining, idx)))

\* lines 346-388
rerank_by_brand_diversity(items_in) ==
    IF Len(items_in) <= 1 THEN items_in ELSE rerank_loop(items_in, PyNone, <<>>)

(***************************************************************************)
(* Store ids at every place that derives one.  Ids are kept as their       *)
(* decimal digits, so that an id wider than 64 bits stays what it is.      *)
(***************************************************************************)
\* int(s) raises ValueError unless every character is a decimal digit
int_raises(s) == Len(s) = 0 \/ \E i \in 1..Len(s) : s[i] \notin DigitChars

\* the decimal digits of int(s): s without its leading zeros
RECURSIVE int_digits(_)
int_digits(s) == IF Len(s) > 1 /\ s[1] = "0" THEN int_digits(Tail(s)) ELSE s

\* core/database.py lines 125-138, get_deterministic_id as a call: it raises,
\* or returns the integer with these digits
deterministic_id_call(source_id) ==
    IF isdigit(source_id)
    THEN IF int_raises(source_id) THEN [raised |-> TRUE, digits |-> <<>>]
         ELSE [raised |-> FALSE, digits |-> int_digits(source_id)]
    ELSE [raised |-> FALSE, digits |-> str(sha256_int(source_id) % HashModulus)]

\* the seeds of Python's str hash, drawn when a process starts
HashSeeds == {0, 1, 2}

\* stand-in for abs(hash(s)) % (10**18) in a process with the given seed
abs_hash(s, seed) == (sha256_int(s) * (2 * seed + 3) + 7919 * (seed + 1)) % HashModulus

\* src/qdrant.py lines 104-110, upsert_products: int(product_id), and the
\* hash of the str when int() raises
ingest_id_call(product_id, seed) ==
    IF int_raises(product_id) THEN [raised |-> FALSE, digits |-> str(abs_hash(product_id, seed))]
    ELSE [raised |-> FALSE, digits |-> int_digits(product_id)]

\* src/app.py lines 328-332, _pid (the id is stripped by the caller)
pid_call(s, seed) ==
    IF isdigit(s)
    THEN IF int_raises(s) THEN [raised |-> TRUE, digits |-> <<>>]
         ELSE [raised |-> FALSE, digits |-> int_digits(s)]
    ELSE [raised |-> FALSE, digits |-> str(abs_hash(s, seed))]

\* the places that look a product up by its external id: capture
\* (recommendation_service.py line 43), by-seed (api/recommendations.py line
\* 118), collaborative (collaborative_recommendation.py line 239) and the
\* by-seed fallback of src/app.py
LookupPlaces == {"capture", "by_seed", "collaborative", "by_seed_fallback"}

lookup_id_call(place, product_id, seed) ==
    IF place = "by_seed_fallback" THEN pid_call(product_id, seed)
    ELSE deterministic_id_call(product_id)

(***************************************************************************)
(* Inputs of the model.                                                    *)
(***************************************************************************)
UserA == <<"a", "@">>
UserB == <<"b", "@">>
UserC == <<"b", "a", "@">>
Users == {UserA, UserB, UserC}

\* the users of the calls (user C has a profile in some initial stores only)
Callers == {UserA, UserB}

\* interaction types of the calls; "click" is a type INTERACTION_WEIGHTS does
\* not list ("view" and "wishlist" occur in the initial histories)
Types == {"click", "cart", "purchase"}

\* "7", "8": points of opposite directions; "9": no such point; "6": a point
\* without the vector
ProductIds == {<<"7">>, <<"8">>, <<"9">>, <<"6">>}

Event(u, t, p) == [user_email |-> u, type |-> t, product_id |-> p]

(***************************************************************************)
(* One whole capture_interaction call with no failing store operation, on  *)
(* a given store: the way the profile stores of Init were built.           *)
(***************************************************************************)
capture_on(store, ev, ts) ==
    LET prod == lookup_product(ev.product_id, FALSE)
    IN  IF ~prod.ok THEN store
        ELSE upsert(store, new_point(scroll_user(store, ev.user_email), ev.user_email,
                                     ev.type, ev.product_id, prod, ts))

RECURSIVE StoreAfter(_)
StoreAfter(events) ==
    IF events = <<>> THEN << >>
    ELSE capture_on(StoreAfter(SubSeq(events, 1, Len(events) - 1)),
                    events[Len(events)], Len(events))

\* the events of user u among events, as history entries, in order
RECURSIVE LogOf(_, _)
LogOf(events, u) ==
    IF events = <<>> THEN <<>>
    ELSE LET e == events[Len(events)]
             rest == LogOf(SubSeq(events, 1, Len(events) - 1), u)
         IN  IF e.user_email = u /\ lookup_product(e.product_id, FALSE).ok
             THEN Append(rest, [id |-> PyStr(e.product_id), type |-> e.type, ts |-> Len(events)])
             ELSE rest

\* histories the initial profile store may hold: none, or one purchase of
\* user B and a long browsing history of user A
Browsing ==
    <<Event(UserB, "purchase", <<"8">>)>> \o
    [i \in 1..WarmLen |->
        Event(UserA,
              IF i = 2 THEN "purchase" ELSE IF i % 3 = 0 THEN "wishlist" ELSE "view",
              IF i % 3 = 0 THEN <<"b">> ELSE IF i % 3 = 1 THEN <<"7">> ELSE <<"3">>)]

Scenarios == {<<>>, Browsing}

(***************************************************************************)
(* State.                                                                  *)
(***************************************************************************)
VARIABLES
    users,      \* the users collection: point id -> point
    tasks,      \* capture_interaction coroutines created and not finished
    running,    \* seq of the coroutine the event loop is executing, 0 if none
    nextSeq,    \* number of coroutines created so far, plus one
    now,        \* time.time(), as a logical clock
    log,        \* per user: the events whose update was upserted, in order
    overlapped, \* per user: number of upserts by calls that were in flight
                \* together with another call for the same user
    skipped,    \* number of calls that ended at the catalog lookup
    response,   \* the recommendation request being answered: its arguments,
                \* the profile stored for its user, and what the call did
    seeded,     \* the by-seed request being answered: its arguments and what
                \* the call did
    items,      \* the list handed to rerank_by_brand_diversity
    reranked,   \* the call of rerank_by_brand_diversity and what it returned
    hash_seed,  \* the seed of str hashes in the running process
    stored,     \* the points written to the product collection by ingestion
    sought,     \* the last lookup of a product by its external id
    ranking,    \* the points of the product collection that match the query of
                \* a search, nearest first
    searching,  \* the call of search_products being answered and what it gave
    startup,    \* create_qdrant_client at module load: its position, the
                \* attempts made and the waits slept
    reachable   \* whether the vector store answers

vars == <<users, tasks, running, nextSeq, now, log, overlapped, skipped, response, seeded,
          items, reranked, hash_seed, stored, sought, ranking, searching, startup, reachable>>

search_vars == <<ranking, searching, startup, reachable>>

NoResponse == [pending |-> FALSE]

\* core/database.py line 16: max_retries: int = 3
MaxRetries == 3

\* the client was created at the first attempt
Connected == [pc |-> "done", max_retries |-> MaxRetries, attempt |-> 0, slept |-> <<>>]

\* no search is issued, and the store is up
NoSearches ==
    /\ ranking = <<>>
    /\ searching = NoResponse
    /\ startup = Connected
    /\ reachable = TRUE

\* no re-ranking and no ingestion or lookup of ids has happened
NoLibraryCalls ==
    /\ NoSearches
    /\ items = <<>>
    /\ reranked = NoResponse
    /\ hash_seed = 0
    /\ stored = {}
    /\ sought = NoResponse

Init ==
    \E sc \in Scenarios :
        /\ users = StoreAfter(sc)
        /\ log = [u \in Users |-> LogOf(sc, u)]
        /\ now = Len(sc) + 1
        /\ tasks = {}
        /\ running = 0
        /\ nextSeq = 1
        /\ overlapped = [u \in Users |-> 0]
        /\ skipped = 0
        /\ response = NoResponse
        /\ seeded = NoResponse
        /\ NoLibraryCalls

\* the catalog facts that make the lookup of product_id fail
LookupFails(product_id) ==
    LET pid == get_deterministic_id(product_id)
    IN  \/ pid \notin DOMAIN Catalog
        \/ Catalog[pid].vector[VECTOR_NAME] = <<>>
        \/ Catalog[pid].payload.price[1] = "str"

\* a new coroutine; overlap and lookup_failed are history fields: the call is
\* in flight together with another call for the same user; its lookup failed
NewTask(u, t, p) ==
    [seq |-> nextSeq, user_email |-> u, type |-> t, product_id |-> p, pc |-> "start",
     prod |-> NoProduct, user_points |-> <<>>,
     overlap |-> \E o \in tasks : o.user_email = u, lookup_failed |-> FALSE]

WithNewTask(u, t, p) ==
    {IF o.user_email = u THEN [o EXCEPT !.overlap = TRUE] ELSE o : o \in tasks}
        \cup {NewTask(u, t, p)}

\* routes.py track_interaction: asyncio.create_task(capture_interaction(...));
\* the coroutine starts when the event loop gets to it
track_interaction(u, t, p) ==
    /\ nextSeq <= MaxCalls
    /\ tasks' = WithNewTask(u, t, p)
    /\ nextSeq' = nextSeq + 1
    /\ UNCHANGED <<users, running, now, log, overlapped, skipped, response, seeded,
                   items, reranked, hash_seed, stored, sought, search_vars>>

\* api/user_tracking.py track_view, track_click, ...: the handler awaits the
\* coroutine, which starts at once inside the handler's own task
track_endpoint(u, t, p) ==
    /\ nextSeq <= MaxCalls
    /\ running = 0
    /\ tasks' = WithNewTask(u, t, p)
    /\ running' = nextSeq
    /\ nextSeq' = nextSeq + 1
    /\ UNCHANGED <<users, now, log, overlapped, skipped, response, seeded,
                   items, reranked, hash_seed, stored, sought, search_vars>>

\* (variant: the store calls awaited, as with an asynchronous client, so that
\* the coroutine is suspended between its scroll and its upsert)
suspends_at_store_call(pc) == pc = "scrolled"

\* the places where the coroutine hands control back to the event loop before
\* it is finished: capture_interaction has no await, its store calls block
suspends(pc) == FALSE

\* the event loop starts ready coroutines in the order they were created and
\* resumes a suspended one at any time; it runs one coroutine at a time
Runnable(t) ==
    IF running # 0 THEN t.seq = running
    ELSE \/ t.pc # "start"
         \/ \A o \in tasks : o.pc = "start" => t.seq <= o.seq

\* the coroutine's position after a step that did not finish it
Continue(t) ==
    /\ tasks' = (tasks \ {t_ \in tasks : t_.seq = t.seq}) \cup {t}
    /\ running' = IF suspends(t.pc) THEN 0 ELSE t.seq

Finish(t) ==
    /\ tasks' = {o \in tasks : o.seq # t.seq}
    /\ running' = 0

\* one step of a capture_interaction coroutine; raises: the store call of the
\* step fails
step_capture(t, raises) ==
    /\ Runnable(t)
    /\ CASE t.pc = "start" ->
              \* 1. Get Product Data from Qdrant (lines 39-72)
              LET prod == lookup_product(t.product_id, raises)
              IN  /\ IF prod.ok
                     THEN /\ Continue([t EXCEPT !.pc = "looked", !.prod = prod,
                                 !.lookup_failed = raises \/ LookupFails(t.product_id)])
                          /\ UNCHANGED skipped
                     ELSE /\ Finish(t)
                          /\ skipped' = skipped + 1
                  /\ UNCHANGED <<users, now, log, overlapped>>
         [] t.pc = "looked" ->
              \* 2. Get User Profile (lines 74-85)
              /\ IF raises THEN Finish(t)
                 ELSE Continue([t EXCEPT !.pc = "scrolled",
                                         !.user_points = scroll_user(users, t.user_email)])
              /\ UNCHANGED <<users, now, log, overlapped, skipped>>
         [] t.pc = "scrolled" ->
              \* profile update and 3. Upsert into Qdrant (lines 87-148)
              LET point == new_point(t.user_points, t.user_email, t.type, t.product_id,
                                     t.prod, now)
              IN  /\ Finish(t)
                  /\ now' = now + 1
                  /\ UNCHANGED skipped
                  /\ IF raises THEN UNCHANGED <<users, log, overlapped>>
                     ELSE /\ users' = upsert(users, point)
                          /\ log' = [log EXCEPT ![t.user_email] =
                                        Append(@, [id |-> PyStr(t.product_id), type |-> t.type,
                                                   ts |-> now])]
                          /\ overlapped' = [overlapped EXCEPT ![t.user_email] =
                                               IF t.overlap THEN @ + 1 ELSE @]
    /\ UNCHANGED <<nextSeq, response, seeded,
                   items, reranked, hash_seed, stored, sought, search_vars>>

Next ==
    \/ \E u \in Callers, t \in Types, p \in ProductIds : track_interaction(u, t, p)
    \/ \E u \in Callers, t \in Types, p \in ProductIds : track_endpoint(u, t, p)
    \/ \E t \in tasks, raises \in BOOLEAN : step_capture(t, raises)

Spec == Init /\ [][Next]_vars

(***************************************************************************)
(* Recommendation requests (api/recommendations.py line 321 calls          *)
(* get_recommendations_with_collaborative).  The call has no await that    *)
(* suspends it, so a request is answered in one step.                      *)
(***************************************************************************)
\* largest limit of a request
MaxLimit == 2

\* number of interactions captured between requests
MaxRecCalls == 1

\* the budget overrides of the requests
BudgetMaxes == {PyNone, PyNum(25)}
BudgetMins == {PyNone, PyNum(30)}

\* the combinations of failing store operations of the requests
FaultSets == {{}, {"scroll"}, {"personal"}, {"similar"}, {"retrieve"}, {"trending"},
              {"scroll", "trending"}, {"personal", "similar"}, {"personal", "trending"}}

\* profile stores of the requests: nobody known; user A with two interactions
\* beside users B and C; user A and user B with three or more interactions;
\* user A with more interactions than the collaborative retrieval reads
ColdStart ==
    <<Event(UserA, "view", <<"9", "7">>), Event(UserB, "purchase", <<"8">>),
      Event(UserB, "cart", <<"b">>), Event(UserA, "view", <<"7">>),
      Event(UserB, "view", <<"9", "7">>), Event(UserC, "view", <<"7">>)>>

Regulars ==
    ColdStart \o
    <<Event(UserA, "view", <<"3">>), Event(UserB, "wishlist", <<"3">>),
      Event(UserC, "purchase", <<"b">>), Event(UserC, "cart", <<"5">>),
      Event(UserC, "cart", <<"8">>)>>

\* the long browsing history of user A beside a user B of three interactions
Veterans ==
    Browsing \o <<Event(UserB, "cart", <<"b">>), Event(UserB, "view", <<"9", "7">>)>>

RecScenarios == {<<>>, ColdStart, Regulars, Veterans}

\* the products of the interactions captured between requests
RecProductIds == {<<"3">>, <<"b">>}

InitRec ==
    \E sc \in RecScenarios :
        /\ users = StoreAfter(sc)
        /\ log = [u \in Users |-> LogOf(sc, u)]
        /\ now = Len(sc) + 1
        /\ tasks = {}
        /\ running = 0
        /\ nextSeq = 1
        /\ overlapped = [u \in Users |-> 0]
        /\ skipped = 0
        /\ response = NoResponse
        /\ seeded = NoResponse
        /\ NoLibraryCalls

\* the request handler, from the request to the value it returns
recommend(user_email, limit, budget_max, budget_min, faults) ==
    /\ ~response.pending
    /\ ~seeded.pending
    /\ running = 0
    /\ response' = [pending |-> TRUE,
                    user_email |-> user_email, limit |-> limit,
                    budget_max |-> budget_max, budget_min |-> budget_min,
                    faults |-> faults,
                    profile |-> scroll_user(users, user_email),
                    ran |-> get_recommendations_with_collaborative(
                                users, user_email, limit, budget_max, budget_min, faults)]
    /\ UNCHANGED <<users, tasks, running, nextSeq, now, log, overlapped, skipped, seeded,
                   items, reranked, hash_seed, stored, sought, search_vars>>

\* the response is sent
respond ==
    /\ response.pending
    /\ response' = NoResponse
    /\ UNCHANGED <<users, tasks, running, nextSeq, now, log, overlapped, skipped, seeded,
                   items, reranked, hash_seed, stored, sought, search_vars>>

\* the seed lists, query texts and cart and wishlist sets of the by-seed
\* requests: "07" is another spelling of "7", "9" is no product, "6" has no
\* vector
SeedLists ==
    {<<>>, <<<<"7">>>>, <<<<"0", "7">>>>, <<<<"9", "7">>>>, <<<<"9">>, <<"6">>>>,
     <<<<"7">>, <<"3">>>>, <<<<"7">>, <<"8">>>>, <<<<"b">>, <<"7">>, <<"9", "7">>>>}
SearchQueries == {PyNone, PyStr(<<" ", " ">>), PyStr(<<"a", " ", "b">>)}
CartSets == {{}, {<<"7">>}}
WishlistSets == {{}, {<<"b">>, <<"7">>}}
SeedFaultSets == {{}, {"retrieve"}, {"embed"}, {"search"}, {"retrieve", "embed"}}

\* a by-seed request (get_recommendations_by_seed, and get_recommendations with
\* product ids or a search query), from the request to what the call gives
by_seed(raw_ids, search_query, limit, cart_ids, wishlist_ids, faults) ==
    /\ ~response.pending
    /\ ~seeded.pending
    /\ tasks = {}
    /\ seeded' = [pending |-> TRUE,
                  raw_ids |-> raw_ids, search_query |-> search_query, limit |-> limit,
                  cart_ids |-> cart_ids, wishlist_ids |-> wishlist_ids, faults |-> faults,
                  did |-> recommendations_by_seed_impl(raw_ids, search_query, limit,
                                                       cart_ids, wishlist_ids, faults)]
    /\ UNCHANGED <<users, tasks, running, nextSeq, now, log, overlapped, skipped, response,
                   items, reranked, hash_seed, stored, sought, search_vars>>

\* the by-seed response is sent
respond_by_seed ==
    /\ seeded.pending
    /\ seeded' = NoResponse
    /\ UNCHANGED <<users, tasks, running, nextSeq, now, log, overlapped, skipped, response,
                   items, reranked, hash_seed, stored, sought, search_vars>>

\* an interaction captured between two requests
capture_between(u, t, p) ==
    /\ ~response.pending
    /\ ~seeded.pending
    /\ nextSeq <= MaxRecCalls
    /\ track_endpoint(u, t, p)

NextRec ==
    \/ \E u \in Users, limit \in 1..MaxLimit, budget_max \in BudgetMaxes,
          budget_min \in BudgetMins, faults \in FaultSets :
            recommend(u, limit, budget_max, budget_min, faults)
    \/ respond
    \/ \E raw_ids \in SeedLists, search_query \in SearchQueries, limit \in 1..MaxLimit,
          cart_ids \in CartSets, wishlist_ids \in WishlistSets, faults \in SeedFaultSets :
            by_seed(raw_ids, search_query, limit, cart_ids, wishlist_ids, faults)
    \/ respond_by_seed
    \/ \E p \in RecProductIds : capture_between(UserA, "cart", p)
    \/ \E t \in tasks : step_capture(t, FALSE)

SpecRec == InitRec /\ [][NextRec]_vars

(***************************************************************************)
(* Re-ranking of item lists.                                               *)
(***************************************************************************)
\* longest list handed to the re-ranking
MaxItems == 3

Brands == {<<>>, <<"A">>, <<"a", " ">>, <<"b">>}
Scores == {0 - 1, 0, 5, 9}
ItemLists == UNION {[1..n -> [brand : Brands, score : Scores]] : n \in 0..MaxItems}

\* no request of the services is issued
NoRequests ==
    /\ users = StoreAfter(<<>>)
    /\ log = [u \in Users |-> <<>>]
    /\ now = 1
    /\ tasks = {}
    /\ running = 0
    /\ nextSeq = 1
    /\ overlapped = [u \in Users |-> 0]
    /\ skipped = 0
    /\ response = NoResponse
    /\ seeded = NoResponse

service_vars == <<users, tasks, running, nextSeq, now, log, overlapped, skipped, response, seeded>>

InitRerank ==
    /\ NoRequests
    /\ items \in ItemLists
    /\ reranked = NoResponse
    /\ hash_seed = 0
    /\ stored = {}
    /\ sought = NoResponse
    /\ NoSearches

rerank ==
    /\ ~reranked.pending
    /\ reranked' = [pending |-> TRUE, value |-> rerank_by_brand_diversity(items)]
    /\ UNCHANGED <<service_vars, items, hash_seed, stored, sought, search_vars>>

NextRerank == rerank

SpecRerank == InitRerank /\ [][NextRerank]_vars

(***************************************************************************)
(* Ingestion of products and lookups by external id, over the processes    *)
(* that serve them.                                                        *)
(***************************************************************************)
\* most points ingestion writes in one behaviour
MaxStored == 2

\* external ids: digit strings, one of them longer than a 64-bit integer,
\* strings that are no number, and a digit that is no decimal digit
ExternalIds ==
    {<<"4", "2">>, <<"0", "7">>, <<"b">>, <<"a", "b">>, <<"^2">>, [k \in 1..20 |-> "9"]}

InitIds ==
    /\ NoRequests
    /\ items = <<>>
    /\ reranked = NoResponse
    /\ hash_seed \in HashSeeds
    /\ stored = {}
    /\ sought = NoResponse
    /\ NoSearches

\* the application is started again: the new process draws its hash seed
start_process(seed) ==
    /\ hash_seed' = seed
    /\ sought' = NoResponse
    /\ UNCHANGED <<service_vars, items, reranked, stored, search_vars>>

\* a point of the product collection: its id and the "id" of its payload
StoredPoint(call, product_id) == [id |-> call.digits, payload_id |-> product_id]

\* client.upsert: the point replaces the one that has its id
upsert_point(collection, point) == {p \in collection : p.id # point.id} \cup {point}

\* core/qdrant_ops.py lines 77-131, upsert_products, for one product
upsert_products_core(product_id) ==
    /\ Cardinality(stored) < MaxStored
    /\ ~deterministic_id_call(product_id).raised
    /\ stored' = upsert_point(stored, StoredPoint(deterministic_id_call(product_id), product_id))
    /\ UNCHANGED <<service_vars, items, reranked, hash_seed, sought, search_vars>>

\* src/qdrant.py lines 91-150, upsert_products, for one product
upsert_products_app(product_id) ==
    /\ Cardinality(stored) < MaxStored
    /\ stored' = upsert_point(stored, StoredPoint(ingest_id_call(product_id, hash_seed), product_id))
    /\ UNCHANGED <<service_vars, items, reranked, hash_seed, sought, search_vars>>

\* a lookup of product_id at one of the places: the id it derives and whether
\* retrieve(ids=[pid]) gives the point written for product_id
lookup(place, product_id) ==
    /\ sought' = [pending |-> TRUE, place |-> place, product_id |-> product_id,
                  call |-> lookup_id_call(place, product_id, hash_seed),
                  found |-> /\ ~lookup_id_call(place, product_id, hash_seed).raised
                            /\ StoredPoint(lookup_id_call(place, product_id, hash_seed),
                                           product_id) \in stored]
    /\ UNCHANGED <<service_vars, items, reranked, hash_seed, stored, search_vars>>

NextIds ==
    \/ \E seed \in HashSeeds : start_process(seed)
    \/ \E product_id \in ExternalIds : upsert_products_core(product_id)
    \/ \E product_id \in ExternalIds : upsert_products_app(product_id)
    \/ \E place \in LookupPlaces, product_id \in ExternalIds : lookup(place, product_id)

SpecIds == InitIds /\ [][NextIds]_vars

(***************************************************************************)
(* Searches of the product collection (core/qdrant_ops.py search_products; *)
(* src/qdrant.py holds the same function without the filter).  A hit is a  *)
(* point with its score and the "name" and "brand" of its payload, each a  *)
(* Python value: None when the key is missing or null, a str, or an int.   *)
(***************************************************************************)
\* most points that match a query, and the largest limit of a search
MaxHits == 3
MaxSearchLimit == 3

\* line 148: len(brand_raw) raises TypeError for a value without a length
len_raises(x) == x[1] = "int"

\* line 148: the length from which a brand is taken for the name
LongBrand == 20

\* lines 136-155 and 273-289, map_qdrant_product: the record of a hit, or the
\* exception that leaves the function
map_qdrant_product_raw(point) ==
    LET name == PyOr(point.payload.name, PyStr(<<>>))
        brand_raw == PyOr(point.payload.brand, PyStr(<<>>))
        Record(n, b) == [raised |-> FALSE,
                         value |-> [id |-> point.id, score |-> point.score,
                                    name |-> IF Truthy(n) THEN n
                                             ELSE PyStr(<<"Product ">> \o str(point.id)),
                                    brand |-> b]]
    IN  IF Truthy(name) THEN Record(name, brand_raw)
        ELSE IF len_raises(brand_raw) THEN [raised |-> TRUE, value |-> <<>>]
        ELSE IF Len(brand_raw[2]) > LongBrand THEN Record(brand_raw, PyStr(<<>>))
        ELSE Record(name, brand_raw)

\* line 338: [map_qdrant_product(p) for p in response.points]
mapped_points(points) ==
    IF \E k \in 1..Len(points) : map_qdrant_product_raw(points[k]).raised THEN Raised
    ELSE Ok([k \in 1..Len(points) |-> map_qdrant_product_raw(points[k]).value])

\* line 361: item.get("brand", "").strip() raises AttributeError for a brand
\* that is no str
strip_raises(item) == item.brand[1] # "str"

\* lines 340-341: rerank_by_brand_diversity on the mapped records (the loop
\* of lines 360-371 reads the brand of every item of a list of two or more)
rerank_mapped(mapped) ==
    LET keyed == [k \in 1..Len(mapped) |->
                     [brand |-> mapped[k].brand[2], score |-> mapped[k].score,
                      record |-> mapped[k]]]
    IN  IF \E k \in 1..Len(mapped) : strip_raises(mapped[k]) THEN Raised
        ELSE Ok([k \in 1..Len(mapped) |-> rerank_by_brand_diversity(keyed)[k].record])

\* line 299: mmr_diversity: float = 0.5, in tenths
MmrDiversity == 5

\* (variant: as many candidates as twice the limit)
query_of_narrow(limit, use_mmr) ==
    [limit |-> limit, mmr |-> use_mmr,
     diversity |-> IF use_mmr THEN MmrDiversity ELSE 0,
     candidates_limit |-> IF use_mmr THEN limit * 2 ELSE limit]

\* lines 304-336: the query sent to the store (without MMR the candidates are
\* the nearest `limit` points)
query_of(limit, use_mmr) ==
    [limit |-> limit, mmr |-> use_mmr,
     diversity |-> IF use_mmr THEN MmrDiversity ELSE 0,
     candidates_limit |-> IF use_mmr THEN limit * 3 ELSE limit]

\* the sequences of n different members of 1..m
Selections(m, n) == {f \in [1..n -> 1..m] : \A i, j \in 1..n : f[i] = f[j] => i = j}

\* client.query_points: the answers the store can give to a query on a
\* collection whose matching points are `nearest`, nearest first: the
\* nearest `limit` points in that order, and with MMR `limit` of the nearest
\* candidates_limit points, in the order of the store's own selection
query_points(nearest, query) ==
    LET candidates == FirstN(nearest, query.candidates_limit)
        n == Min(query.limit, Len(candidates))
    IN  IF ~query.mmr THEN {FirstN(nearest, query.limit)}
        ELSE {[k \in 1..n |-> candidates[f[k]]] : f \in Selections(Len(candidates), n)}

\* lines 338-343: what search_products gives for the points of the response
search_products_raw(points, use_mmr) ==
    LET mapped == mapped_points(points)
    IN  IF mapped.raised THEN Raised
        ELSE IF use_mmr /\ Len(mapped.value) > 1 THEN rerank_mapped(mapped.value)
        ELSE mapped

\* the payloads of the points: two brands; neither name nor brand; an int for
\* the brand, without and with a name
RawPayloads ==
    {[name |-> PyStr(<<"n">>), brand |-> PyStr(<<"A">>)],
     [name |-> PyStr(<<"n">>), brand |-> PyStr(<<"b">>)],
     [name |-> PyNone, brand |-> PyNone],
     [name |-> PyNone, brand |-> PyInt(42)],
     [name |-> PyStr(<<"n">>), brand |-> PyInt(42)]}

\* the points that match the query: point k is the k-th nearest
Rankings ==
    UNION {{[k \in 1..n |-> [id |-> k, score |-> 10 - k, payload |-> f[k]]] :
               f \in [1..n -> RawPayloads]} : n \in 0..MaxHits}

InitSearch ==
    /\ NoRequests
    /\ items = <<>>
    /\ reranked = NoResponse
    /\ hash_seed = 0
    /\ stored = {}
    /\ sought = NoResponse
    /\ ranking \in Rankings
    /\ searching = NoResponse
    /\ startup = Connected
    /\ reachable = TRUE

\* search_products, from the call to what it gives; points: the answer of the
\* store
search(limit, use_mmr, points) ==
    /\ ~searching.pending
    /\ searching' = [pending |-> TRUE, limit |-> limit, use_mmr |-> use_mmr,
                     query |-> query_of(limit, use_mmr), points |-> points,
                     outcome |-> search_products_raw(points, use_mmr)]
    /\ UNCHANGED <<service_vars, items, reranked, hash_seed, stored, sought,
                   ranking, startup, reachable>>

\* the caller has the result
search_returns ==
    /\ searching.pending
    /\ searching' = NoResponse
    /\ UNCHANGED <<service_vars, items, reranked, hash_seed, stored, sought,
                   ranking, startup, reachable>>

NextSearch ==
    \/ \E limit \in 1..MaxSearchLimit, use_mmr \in BOOLEAN :
           \E points \in query_points(ranking, query_of(limit, use_mmr)) :
               search(limit, use_mmr, points)
    \/ search_returns

SpecSearch == InitSearch /\ [][NextSearch]_vars

(***************************************************************************)
(* Creation of the store client when core/database.py is loaded, and the   *)
(* recommendation requests served with that client.                        *)
(***************************************************************************)
\* line 33: wait_time = 2 ** attempt
wait_time(attempt) == 2 ^ attempt

InitRetry ==
    \E sc \in RecScenarios :
        /\ users = StoreAfter(sc)
        /\ log = [u \in Users |-> LogOf(sc, u)]
        /\ now = Len(sc) + 1
        /\ tasks = {}
        /\ running = 0
        /\ nextSeq = 1
        /\ overlapped = [u \in Users |-> 0]
        /\ skipped = 0
        /\ response = NoResponse
        /\ seeded = NoResponse
        /\ items = <<>>
        /\ reranked = NoResponse
        /\ hash_seed = 0
        /\ stored = {}
        /\ sought = NoResponse
        /\ ranking = <<>>
        /\ searching = NoResponse
        /\ startup \in {[pc |-> "try", max_retries |-> m, attempt |-> 0, slept |-> <<>>] :
                           m \in 1..MaxRetries}
        /\ reachable \in BOOLEAN

\* lines 20-37: one attempt of the loop: QdrantClient(...) and
\* client.get_collections() succeed when the store answers; else the loop
\* sleeps, or after the last attempt raises (lines 43-46: client = None)
connect ==
    /\ startup.pc = "try"
    /\ startup' = IF reachable THEN [startup EXCEPT !.pc = "done"]
                  ELSE IF startup.attempt < startup.max_retries - 1
                       THEN [startup EXCEPT !.pc = "sleep"]
                  ELSE [startup EXCEPT !.pc = "raised"]
    /\ UNCHANGED <<service_vars, items, reranked, hash_seed, stored, sought,
                   ranking, searching, reachable>>

\* lines 33-35: time.sleep(wait_time) returns and the loop takes the next
\* attempt
backoff ==
    /\ startup.pc = "sleep"
    /\ startup' = [startup EXCEPT !.pc = "try", !.attempt = @ + 1,
                                  !.slept = Append(@, wait_time(startup.attempt))]
    /\ UNCHANGED <<service_vars, items, reranked, hash_seed, stored, sought,
                   ranking, searching, reachable>>

\* the store goes down or comes back
store_changes ==
    /\ reachable' = ~reachable
    /\ UNCHANGED <<service_vars, items, reranked, hash_seed, stored, sought,
                   ranking, searching, startup>>

\* a recommendation request on the client of the module (services/
\* collaborative_recommendation.py line 28; without a client the service
\* module cannot be loaded): every store operation of the request fails when
\* the store does not answer, and none is tried again
recommend_on_client(user_email, limit, budget_max, budget_min) ==
    /\ startup.pc = "done"
    /\ recommend(user_email, limit, budget_max, budget_min,
                 IF reachable THEN {} ELSE FaultOps)

NextRetry ==
    \/ connect
    \/ backoff
    \/ store_changes
    \/ \E u \in Users, limit \in 1..MaxLimit, budget_max \in BudgetMaxes,
          budget_min \in BudgetMins :
            recommend_on_client(u, limit, budget_max, budget_min)
    \/ respond

\* the loop of create_qdrant_client runs on; a sleep ends
SpecRetry == InitRetry /\ [][NextRetry]_vars /\ WF_vars(connect) /\ WF_vars(backoff)

(***************************************************************************)
(* Properties of the profile updater.                                      *)
(***************************************************************************)
Profile(u) == scroll_user(users, u)

HasProfile(u) == Profile(u) # <<>>

InFlight(u) == \E t \in tasks : t.user_email = u

\* the category under which the event of a history entry was counted
CategoryOf(entry) == lookup_product(entry.id[2], FALSE).category

CountIn(seq, c) == Cardinality({i \in 1..Len(seq) : CategoryOf(seq[i]) = c})

AllCategories == {"Shoes", "Bags", "General"}

\* C1: when calls for the same user were in flight at the same time and all of
\* them are finished, the stored profile reflects every one of the updates:
\* its latest history entries are the latest events, and every category count
\* equals the number of events of that category.
C1_NoLostUpdate ==
    \A u \in Users :
        (overlapped[u] > 0 /\ ~InFlight(u)) =>
            /\ HasProfile(u)
            /\ LastN(Profile(u)[1].payload.interactions, 2) = LastN(log[u], 2)
            /\ \A c \in AllCategories :
                   CountIn(log[u], c) =
                       (IF c \in DOMAIN Profile(u)[1].payload.preferred_categories
                        THEN Profile(u)[1].payload.preferred_categories[c] ELSE 0)

\* two overlapping calls on an existing profile have both been upserted
C1_Witness ==
    \E u \in Users :
        /\ overlapped[u] >= 2
        /\ ~InFlight(u)
        /\ Len(log[u]) > WarmLen

\* C2: the taste vector of every stored profile has unit L2 norm.
C2_UnitTaste == \A i \in DOMAIN users : IsUnit(users[i].vector)

C4_CountsNeverDecrease ==
    [][\A u \in Users :
          HasProfile(u) =>
             LET before == Profile(u)[1].payload.preferred_categories
             IN  \A c \in DOMAIN before :
                    LET after == scroll_user(users', u)
                    IN  /\ after # <<>>
                        /\ c \in DOMAIN after[1].payload.preferred_categories
                        /\ after[1].payload.preferred_categories[c] >= before[c]]_vars

\* a profile created and updated by two calls on items of one category
C4_Witness ==
    \E u \in Users :
        /\ HasProfile(u)
        /\ Len(Profile(u)[1].payload.interactions) = 2
        /\ \E c \in DOMAIN Profile(u)[1].payload.preferred_categories :
               Profile(u)[1].payload.preferred_categories[c] = 2

\* C5: the stored history has at most 20 entries and is the last min(20, n) of
\* the n events applied for the user, in the order they were applied.
C5_HistoryIsLast20 ==
    \A u \in Users :
        IF HasProfile(u)
        THEN /\ Len(Profile(u)[1].payload.interactions) <= HistoryLimit
             /\ Profile(u)[1].payload.interactions = LastN(log[u], HistoryLimit)
        ELSE log[u] = <<>>

\* more than 20 events applied, the oldest dropped
C5_Witness ==
    \E u \in Users :
        /\ Len(log[u]) > HistoryLimit
        /\ HasProfile(u)
        /\ Len(Profile(u)[1].payload.interactions) = HistoryLimit
        /\ Profile(u)[1].payload.interactions[HistoryLimit] = log[u][Len(log[u])]

\* C6: the store changes only by the upsert of a call whose catalog lookup
\* succeeded: a call whose lookup failed (no point, no vector, unparsable
\* price, or the retrieve raised) issues no upsert and leaves every stored
\* profile as it was.
C6_FailedLookupSkipsUpdate ==
    [][/\ users' # users =>
             \E t \in tasks : /\ t.pc = "scrolled"
                              /\ ~t.lookup_failed
                              /\ ~LookupFails(t.product_id)
                              /\ \A o \in tasks' : o.seq # t.seq
       /\ skipped' # skipped => users' = users /\ log' = log]_vars

\* a call ended at its lookup while a profile was stored
C6_Witness == skipped > 0 /\ users # << >> /\ tasks = {}

(***************************************************************************)
(* Properties of the recommendation requests.                              *)
(***************************************************************************)
Answered == response.pending

\* the interactions of the profile stored for the user of the request
RecordedInteractions ==
    IF response.profile = <<>> THEN <<>> ELSE response.profile[1].payload.interactions

Returned == response.ran.outcome.value

AllTrending(list) == \A k \in 1..Len(list) : list[k].sources = <<"trending">>

\* C7: when no store operation of the profile lookup fails, the strategy of
\* the request follows from the stored data alone: no profile, the trending
\* fallback and no retrieval; fewer than 3 recorded interactions, the
\* personal retrieval alone, with the requested limit; 3 or more, the
\* personal retrieval with twice the limit and the collaborative retrieval,
\* combined.  A failed lookup gives the trending fallback.
C7_StrategyFromData ==
    Answered =>
        LET ran == response.ran
            count == Len(RecordedInteractions)
        IN  IF "scroll" \in response.faults \/ response.profile = <<>>
            THEN /\ ran.trending /\ ran.personal_limit = 0 /\ ~ran.collaborative
                 /\ AllTrending(Returned)
            ELSE IF count < 3
            THEN /\ ~ran.trending /\ ran.personal_limit = response.limit /\ ~ran.collaborative
                 /\ Returned = ran.personal_recs
            ELSE /\ ~ran.trending /\ ran.personal_limit = 2 * response.limit
                 /\ ran.collaborative
                 /\ Returned = FirstN(ran.combined_recs, response.limit)

\* requests of all three strategies: a profile of exactly 3 interactions
\* answered with the combination
C7_Witness ==
    /\ Answered /\ response.faults = {}
    /\ Len(RecordedInteractions) = 3
    /\ response.ran.collaborative
    /\ Len(Returned) = response.limit

\* C8: the request never raises: it returns a list whatever store operations
\* fail, and for a user with no profile the list is the trending fallback.
C8_NeverRaises ==
    Answered =>
        /\ ~response.ran.outcome.raised
        /\ Len(Returned) <= response.limit
        /\ (response.profile = <<>> \/ RecordedInteractions = <<>>) =>
               (response.ran.trending /\ AllTrending(Returned))

\* the profile lookup and the trending scroll both fail: the empty list
C8_Witness ==
    /\ Answered
    /\ response.faults = {"scroll", "trending"}
    /\ ~response.ran.outcome.raised
    /\ Returned = <<>>

\* the index sets of the records of an item id in a list
WithId(list, id) == {k \in 1..Len(list) : list[k].id = id}

\* the record of an item id in a list that holds one
RecordOf(list, id) == list[CHOOSE k \in WithId(list, id) : TRUE]

\* the terms the two lists contribute to the final score of an item id
PersonalTerm(list, id) ==
    IF WithId(list, id) = {} THEN 0 ELSE 40 * RecordOf(list, id).personal_score

CollaborativeTerm(list, id) ==
    IF WithId(list, id) = {} THEN 0 ELSE 60 * RecordOf(list, id).collaborative_score

\* the example of C9: personal 0.8 and collaborative 0.6 against personal 0.9
C9_Example ==
    LET both == map_qdrant_product(Catalog[7], 0)
        single == map_qdrant_product(Catalog[3], 0)
        personal == <<[single EXCEPT !.personal_score = 9 * Scale],
                      [both EXCEPT !.personal_score = 8 * Scale]>>
        collaborative == <<[both EXCEPT !.collaborative_score = 6 * Scale]>>
    IN  combine_recommendations(personal, collaborative, [interactions |-> <<>>])

PointOf(rec) == CHOOSE i \in DOMAIN Catalog : map_qdrant_product(Catalog[i], 0).id = rec.id

\* C10: in the hybrid path no returned item is a product of the requesting
\* user's recorded interactions.
C10_InteractedExcluded ==
    Answered /\ response.ran.collaborative =>
        \A k \in 1..Len(Returned) : \A h \in 1..Len(RecordedInteractions) :
            get_deterministic_id(RecordedInteractions[h].id[2]) # PointOf(Returned[k])

(***************************************************************************)
(* Properties of the responses of both kinds of request.                   *)
(***************************************************************************)
SeedAnswered == seeded.pending

\* the list a by-seed request returns (empty when the call raised)
SeedReturned == seeded.did.outcome.value

UniqueIds(list) == \A j, k \in 1..Len(list) : list[j].id = list[k].id => j = k

Hybrid == Answered /\ response.ran.collaborative

NonIncreasing(list) ==
    \A k \in 1..(Len(list) - 1) : list[k].final_score >= list[k + 1].final_score

LeftOut(candidates, list) ==
    {k \in 1..Len(candidates) : \A j \in 1..Len(list) : list[j].id # candidates[k].id}

C12_TopLimitSorted ==
    Hybrid =>
        LET candidates == response.ran.combined_recs
        IN  /\ NonIncreasing(Returned)
            /\ Len(Returned) <= response.limit
            /\ Len(Returned) = Min(response.limit, Len(candidates))
            /\ \A j \in 1..Len(Returned) : \E k \in 1..Len(candidates) :
                   candidates[k] = Returned[j]
            /\ \A k \in LeftOut(candidates, Returned) : \A j \in 1..Len(Returned) :
                   candidates[k].final_score <= Returned[j].final_score

\* a hybrid response with more candidates than the limit, whose returned
\* items differ in score
C12_Witness ==
    /\ Hybrid
    /\ Len(response.ran.combined_recs) > response.limit
    /\ Len(Returned) = 2
    /\ Returned[1].final_score > Returned[2].final_score

(***************************************************************************)
(* C13: when the request gives budget_max, every returned item costs at    *)
(* most budget_max, and when it gives budget_min, every returned item      *)
(* costs at least budget_min, on every path of the request.                *)
(***************************************************************************)
C13_BudgetRespected ==
    Answered =>
        \A k \in 1..Len(Returned) :
            /\ IsNone(response.budget_max) \/ Returned[k].price <= response.budget_max[2]
            /\ IsNone(response.budget_min) \/ Returned[k].price >= response.budget_min[2]

(***************************************************************************)
(* C14: every returned record has a non-empty set of source tags and an    *)
(* explanation; the tags name the retrievals that gave the item: personal  *)
(* for an item of the personal list only (the cold-start list included),   *)
(* collaborative for an item of the collaborative list only, both for an   *)
(* item of both, trending for an item of the fallback; and the strategy    *)
(* reported for a non-empty list is the one of the path the request took.  *)
(***************************************************************************)
Tags(rec) == {rec.sources[k] : k \in 1..Len(rec.sources)}

InList(list, rec) == \E k \in 1..Len(list) : list[k].id = rec.id

Contributors(rec) ==
    IF response.ran.trending THEN {"trending"}
    ELSE (IF InList(response.ran.personal_recs, rec) THEN {"personal"} ELSE {})
         \cup (IF InList(response.ran.collaborative_recs, rec) THEN {"collaborative"} ELSE {})

PathStrategy ==
    IF response.ran.trending THEN "trending (fallback)"
    ELSE IF response.ran.collaborative THEN "hybrid (personal + collaborative)"
    ELSE "personal (cold start)"

C14_SourcesNameThePath ==
    Answered =>
        /\ \A k \in 1..Len(Returned) :
               /\ Returned[k].sources # <<>>
               /\ Returned[k].explanation # ""
               /\ Tags(Returned[k]) = Contributors(Returned[k])
        /\ Returned # <<>> => strategy_of(Returned) = PathStrategy

(***************************************************************************)
(* Properties of the re-ranking.                                           *)
(***************************************************************************)
Reranked == reranked.value

\* how many times x occurs in list
Count(list, x) == Cardinality({k \in 1..Len(list) : list[k] = x})

C16_AdjacencyOnlyWhenForced ==
    reranked.pending =>
        \A k \in 1..(Len(Reranked) - 1) :
            normalized_brand(Reranked[k]) = normalized_brand(Reranked[k + 1]) =>
                \A j \in (k + 1)..Len(Reranked) :
                    normalized_brand(Reranked[j]) = normalized_brand(Reranked[k])

\* a re-ranked list that ends with two neighbours of one brand after an item
\* of another brand, the input having the two of one brand first
C16_Witness ==
    /\ reranked.pending
    /\ Len(Reranked) = 3
    /\ normalized_brand(items[1]) = normalized_brand(items[2])
    /\ normalized_brand(Reranked[1]) # normalized_brand(Reranked[2])
    /\ normalized_brand(Reranked[2]) = normalized_brand(Reranked[3])
    /\ Reranked[2].brand # Reranked[3].brand

(***************************************************************************)
(* Properties of the store ids.                                            *)
(***************************************************************************)
\* the decimal digits of 2^63 - 1
Int64MaxDigits ==
    <<"9", "2", "2", "3", "3", "7", "2", "0", "3", "6", "8", "5", "4", "7", "7", "5", "8", "0", "7">>

\* a <= b for non-negative integers given by their digits, no leading zeros
DigitsLeq(a, b) ==
    \/ Len(a) < Len(b)
    \/ /\ Len(a) = Len(b)
       /\ \/ a = b
          \/ \E k \in 1..Len(a) :
                /\ CharCode[a[k]] < CharCode[b[k]]
                /\ \A j \in 1..(k - 1) : a[j] = b[j]

AllDecimal(s) == Len(s) > 0 /\ \A i \in 1..Len(s) : s[i] \in DigitChars

(***************************************************************************)
(* C17: get_deterministic_id returns for every string, without an error,   *)
(* an integer within the signed 64-bit bounds: the numeric value of an     *)
(* all-digit input, and a value in [0, modulus) for any other input.       *)
(***************************************************************************)
C17_StoreIdTotal ==
    (sought.pending /\ sought.place # "by_seed_fallback") =>
        /\ ~sought.call.raised
        /\ DigitsLeq(sought.call.digits, Int64MaxDigits)
        /\ IF AllDecimal(sought.product_id)
           THEN sought.call.digits = int_digits(sought.product_id)
           ELSE DigitsLeq(sought.call.digits, str(HashModulus - 1))

(***************************************************************************)
(* C18: the mapping from external id to store id gives the same id at      *)
(* every place and in every process, so a product that ingestion wrote     *)
(* under an external id is found by every later lookup of that id.         *)
(***************************************************************************)
C18_WrittenIsFound ==
    (sought.pending /\ \E p \in stored : p.payload_id = sought.product_id) => sought.found

(***************************************************************************)
(* C19: whenever the by-seed request has seed vectors to average, the      *)
(* query vector it hands to the product search has unit L2 norm.           *)
(***************************************************************************)
C19_UnitQueryVector ==
    (SeedAnswered /\ seeded.did.weighted # <<>>) => IsUnit(seeded.did.query_vector)

(***************************************************************************)
(* C20: when the seed gives nothing to build a query from (no product id   *)
(* and no search text that is not blank, or no product id that resolves to *)
(* a vector and a search text that is absent, blank or fails to embed),    *)
(* the by-seed request returns the empty list, raises nothing and runs no  *)
(* product search.                                                         *)
(***************************************************************************)
BlankText(search_query) ==
    IsNone(search_query) \/ \A k \in 1..Len(search_query[2]) : search_query[2][k] = " "

SeedHasVector(pid_str) ==
    /\ "retrieve" \notin seeded.faults
    /\ \E i \in DOMAIN Catalog :
          i = get_deterministic_id(pid_str) /\ Catalog[i].vector[VECTOR_NAME] # <<>>

NothingToQuery ==
    /\ \A k \in 1..Len(seeded.raw_ids) : ~SeedHasVector(seeded.raw_ids[k])
    /\ BlankText(seeded.search_query) \/ "embed" \in seeded.faults

C20_EmptySeedEmptyResult ==
    (SeedAnswered /\ NothingToQuery) =>
        /\ ~seeded.did.outcome.raised
        /\ SeedReturned = <<>>
        /\ ~seeded.did.searched

\* a request with ids that resolve to no vector and a text that fails to embed
C20_Witness ==
    /\ SeedAnswered
    /\ NothingToQuery
    /\ seeded.raw_ids # <<>>
    /\ ~BlankText(seeded.search_query)
    /\ ~seeded.did.searched
    /\ SeedReturned = <<>>

(***************************************************************************)
(* Further properties of the profile updater.                              *)
(***************************************************************************)
\* the call t ends with this step, and its upsert changes the store
Upserts(t) ==
    /\ t.pc = "scrolled"
    /\ users' # users
    /\ \A o \in tasks' : o.seq # t.seq

\* the catalog point of the product of call t
ProductOf(t) == Catalog[get_deterministic_id(t.product_id)]

(***************************************************************************)
(* C24: the upsert of a call that found no profile for its user stores a   *)
(* profile whose vector is the item's vector, whose budget is 0.7 and 1.3  *)
(* times the item's price with confidence 0.3, whose category map counts   *)
(* the item's category once, and whose history is the one interaction,     *)
(* whatever the interaction type.                                          *)
(***************************************************************************)
C24_FirstCaptureCreates ==
    [][\A t \in tasks :
          (Upserts(t) /\ t.user_points = <<>>) =>
              LET created == scroll_user(users', t.user_email)
              IN  /\ created # <<>>
                  /\ created[1].vector = ProductOf(t).vector[VECTOR_NAME]
                  /\ 10 * created[1].payload.budget.min = 7 * t.prod.price * BudgetDen
                  /\ 10 * created[1].payload.budget.max = 13 * t.prod.price * BudgetDen
                  /\ created[1].payload.budget.confidence = 30
                  /\ DOMAIN created[1].payload.preferred_categories = {t.prod.category}
                  /\ created[1].payload.preferred_categories[t.prod.category] = 1
                  /\ Len(created[1].payload.interactions) = 1
                  /\ created[1].payload.interactions[1].id = PyStr(t.product_id)
                  /\ created[1].payload.interactions[1].type = t.type]_vars

\* the only profile of the store, created by the purchase of a priced item
C24_Witness ==
    \E u \in Callers :
        /\ HasProfile(u)
        /\ log[u] = Profile(u)[1].payload.interactions
        /\ Len(log[u]) = 1
        /\ log[u][1].type = "purchase"
        /\ Profile(u)[1].payload.budget.max > 0
        /\ Cardinality(DOMAIN users) = 1
        /\ nextSeq > 1

(***************************************************************************)
(* C25: the upsert of a call that read a profile with budget (min, max,    *)
(* conf) for an item of price p stores, after a purchase,                  *)
(* min' = (min + 0.7p)/2, max' = (max + 1.5p)/2, conf' = min(conf + 0.2,   *)
(* 1), and after any other interaction min' = min(min, 0.5p),              *)
(* max' = max(max, 1.5p), conf' = min(conf + 0.05, 1); the confidence      *)
(* never exceeds 1 and never decreases.  From {10, 1000, 0.1} a purchase   *)
(* at price 100 gives {40, 575, 0.3}.                                      *)
(***************************************************************************)
C25_Example ==
    updated_budget([min |-> 10 * BudgetDen, max |-> 1000 * BudgetDen, confidence |-> 10],
                   "purchase", 100)
        = [min |-> 40 * BudgetDen, max |-> 575 * BudgetDen, confidence |-> 30]

C25_BudgetRule ==
    [][/\ C25_Example
       /\ \A t \in tasks :
             (Upserts(t) /\ t.user_points # <<>>) =>
                 LET old == t.user_points[1].payload.budget
                     new == users'[t.user_points[1].id].payload.budget
                     p == t.prod.price * BudgetDen
                 IN  /\ IF t.type = "purchase"
                        THEN /\ 20 * new.min = 10 * old.min + 7 * p
                             /\ 20 * new.max = 10 * old.max + 15 * p
                             /\ new.confidence = Min(old.confidence + 20, 100)
                        ELSE /\ 10 * new.min = Min(10 * old.min, 5 * p)
                             /\ 10 * new.max = Max(10 * old.max, 15 * p)
                             /\ new.min <= old.min /\ new.max >= old.max
                             /\ new.confidence = Min(old.confidence + 5, 100)
                     /\ new.confidence <= 100
                     /\ new.confidence >= old.confidence]_vars

\* a profile whose confidence had reached 1.0, updated by a purchase and by
\* another interaction
C25_Witness ==
    \E u \in Callers :
        /\ HasProfile(u)
        /\ Profile(u)[1].payload.budget.confidence = 100
        /\ Len(log[u]) = WarmLen + 2
        /\ log[u][WarmLen + 1].type = "purchase"
        /\ log[u][WarmLen + 2].type = "cart"

(***************************************************************************)
(* C26: at every position of the re-ranked list the item is a highest-     *)
(* scoring one among the items from that position on whose normalized      *)
(* brand differs from the brand of the item just before, and a highest-    *)
(* scoring one of all of them when none differs; so [A(X,9), B(X,8),       *)
(* C(Y,7)] gives [A, C, B], and a list of one brand comes out in           *)
(* descending order of score.                                              *)
(***************************************************************************)
\* the positions from k on whose item may be placed at k: those of another
\* brand than the item before, all of them when there is none (or no item
\* before)
Eligible(list, k) ==
    LET rest == k..Len(list)
        others == {j \in rest : normalized_brand(list[j]) # normalized_brand(list[k - 1])}
    IN  IF k > 1 /\ others # {} THEN others ELSE rest

C26_Example ==
    LET A == [brand |-> <<"A">>, score |-> 9]
        B == [brand |-> <<"a", " ">>, score |-> 8]
        C == [brand |-> <<"b">>, score |-> 7]
    IN  rerank_by_brand_diversity(<<A, B, C>>) = <<A, C, B>>

OneBrand(list) ==
    \A j, k \in 1..Len(list) : normalized_brand(list[j]) = normalized_brand(list[k])

C26_BestEligibleAtEachStep ==
    /\ C26_Example
    /\ reranked.pending =>
          /\ \A k \in 1..Len(Reranked) :
                /\ k \in Eligible(Reranked, k)
                /\ \A j \in Eligible(Reranked, k) : Reranked[j].score <= Reranked[k].score
          /\ OneBrand(items) =>
                \A k \in 1..(Len(Reranked) - 1) : Reranked[k].score >= Reranked[k + 1].score

\* a lower-scoring item of another brand placed before a higher-scoring item
\* of the brand just placed
C26_Witness ==
    /\ reranked.pending
    /\ Len(Reranked) = 3
    /\ normalized_brand(Reranked[1]) = normalized_brand(Reranked[3])
    /\ normalized_brand(Reranked[1]) # normalized_brand(Reranked[2])
    /\ Reranked[2].score < Reranked[3].score
    /\ Reranked[3].score < Reranked[1].score

(***************************************************************************)
(* C27: when several items that may be placed at a position have the same  *)
(* score, the one that comes first in the input list is placed first, in   *)
(* the branch of the differing brands and in the fallback alike, and for   *)
(* zero and negative scores too.  Stated through the input positions of    *)
(* the placed items: they can be assigned so that no item is placed before *)
(* an earlier item of the input of the same score that could be placed.    *)
(***************************************************************************)
Orders(n) == {pi \in [1..n -> 1..n] : \A a, b \in 1..n : pi[a] = pi[b] => a = b}

C27_FirstOccurrenceWinsTies ==
    reranked.pending =>
        \E pi \in Orders(Len(items)) :
            /\ Len(Reranked) = Len(items)
            /\ \A k \in 1..Len(items) : Reranked[k] = items[pi[k]]
            /\ \A k \in 1..Len(items) : \A j \in Eligible(Reranked, k) :
                   (j # k /\ Reranked[j].score = Reranked[k].score) => pi[k] < pi[j]

\* three items of one brand in two spellings and one negative score: a tie
\* at the first position, and a tie in the fallback at the second
C27_Witness ==
    /\ reranked.pending
    /\ Len(items) = 3
    /\ \A k \in 1..3 : items[k].score < 0
    /\ items[1].brand = <<"A">>
    /\ items[2].brand = <<"a", " ">>
    /\ items[3] = items[1]
    /\ Reranked = items

(***************************************************************************)
(* Properties of the collaborative retrieval.                              *)
(***************************************************************************)
\* the points of the users other than the one of the request
Peers == {i \in DOMAIN users : users[i].payload.user_email # response.user_email}

Similarity(i) == Cosine(response.profile[1].vector, users[i].vector)

\* the interactions of a peer that the retrieval reads
RecentOf(i) == LastN(users[i].payload.interactions, 10)

ClaimedWeight(type) ==
    CASE type = "purchase" -> 10 [] type = "cart" -> 7 [] type = "wishlist" -> 5
      [] type = "view" -> 2 [] OTHER -> 1

\* occurrences of the interaction id key among the read interactions of the
\* peers, and the sum of similarity * type weight over them
Occurrences(key) ==
    SumSeq([n \in 1..Len(Ascending(Peers)) |->
               Cardinality({k \in 1..Len(RecentOf(Ascending(Peers)[n])) :
                               RecentOf(Ascending(Peers)[n])[k].id = key})])

Accumulated(key) ==
    SumSeq([n \in 1..Len(Ascending(Peers)) |->
               SumSeq([k \in 1..Len(RecentOf(Ascending(Peers)[n])) |->
                          IF RecentOf(Ascending(Peers)[n])[k].id = key
                          THEN Similarity(Ascending(Peers)[n])
                                   * ClaimedWeight(RecentOf(Ascending(Peers)[n])[k].type)
                          ELSE 0])])

\* the interaction ids of the peers under which the product of rec is found
KeysOf(rec) ==
    {key \in UNION {{RecentOf(i)[k].id : k \in 1..Len(RecentOf(i))} : i \in Peers} :
        /\ retrieve(get_deterministic_id(key[2])) # <<>>
        /\ map_qdrant_product(retrieve(get_deterministic_id(key[2]))[1], 0).id = rec.id}

ScoredAsClaimed(rec, key) ==
    /\ rec.liked_by_similar_users = Occurrences(key)
    /\ rec.collaborative_score =
           RoundDiv(Accumulated(key) * (Cardinality(Peers) + Occurrences(key)),
                    10 * Occurrences(key) * Cardinality(Peers))

CollaborativeRan == Hybrid /\ "similar" \notin response.faults

PointsOf(u) == {i \in DOMAIN users : users[i].payload.user_email = u}

\* every point is stored under its own id, the id is the one derived from the
\* e-mail of its payload, and no user has two points
OnePointPerUser ==
    /\ \A i \in DOMAIN users :
           /\ users[i].id = i
           /\ i = get_deterministic_id(users[i].payload.user_email)
    /\ \A u \in Users : Cardinality(PointsOf(u)) <= 1

\* an upsert writes one point, of the call's user: a new one under the id
\* derived from the e-mail when the scroll found none, else the point that the
\* scroll returned; every other point is left as it was
WritesBack ==
    \A t \in tasks :
        Upserts(t) =>
            LET id == IF t.user_points = <<>> THEN get_deterministic_id(t.user_email)
                      ELSE t.user_points[1].id
            IN  /\ DOMAIN users' = DOMAIN users \cup {id}
                /\ users'[id].payload.user_email = t.user_email
                /\ \A i \in DOMAIN users \ {id} : users'[i] = users[i]
                /\ t.user_points = <<>> => PointsOf(t.user_email) = {}

\* C29: after any sequence or interleaving of capture_interaction calls the
\* users collection holds at most one profile point per user: a profile is
\* created only when none is stored for the user, under the id derived from the
\* user's e-mail, and every update is written to the id of the point it read.
C29_OneProfilePerUser == []OnePointPerUser /\ [][WritesBack]_vars

\* two first interactions of one user were in flight together, both were
\* upserted, and the collection holds the single profile of that user
C29_Witness ==
    \E u \in Callers :
        /\ overlapped[u] = 2
        /\ ~InFlight(u)
        /\ Len(log[u]) = 2
        /\ DOMAIN users = {get_deterministic_id(u)}
        /\ Len(users[get_deterministic_id(u)].payload.interactions) = 2

(***************************************************************************)
(* The strategy of recommend along the life of a profile.                  *)
(***************************************************************************)
\* the branch that get_recommendations_with_collaborative takes on a store
\* for a user, failures aside: 0 trending for want of a profile, 1 personal
\* only (cold start), 2 hybrid
StrategyRank(store, u) ==
    LET user_points == scroll_user(store, u)
    IN  IF user_points = <<>> THEN 0
        ELSE IF is_cold_start(Len(user_points[1].payload.interactions)) THEN 1
        ELSE 2

InteractionCount(store, u) == Len(scroll_user(store, u)[1].payload.interactions)

\* C30: the strategy of a user only advances: a stored profile is never absent
\* again, and a recorded interaction count that has reached 3 never falls
\* below 3 in any step of any interleaving of capture_interaction calls, so
\* that hybrid is never followed by cold start or by the no-profile trending.
C30_StrategyAdvances ==
    [][\A u \in Users :
          /\ StrategyRank(users', u) >= StrategyRank(users, u)
          /\ scroll_user(users, u) # <<>> =>
                 /\ scroll_user(users', u) # <<>>
                 /\ InteractionCount(users, u) >= HybridThreshold =>
                        InteractionCount(users', u) >= HybridThreshold]_vars

\* a history at the limit of 20 was appended to and cut, and the user is
\* still served by the hybrid branch
C30_Witness ==
    \E u \in Callers :
        /\ Len(log[u]) = HistoryLimit + 1
        /\ StrategyRank(users, u) = 2
        /\ InteractionCount(users, u) = HistoryLimit

(***************************************************************************)
(* Properties of the searches.                                             *)
(***************************************************************************)
Searched == searching.pending

RecordIds(list) == [k \in 1..Len(list) |-> list[k].id]

\* C21: a search never fails because of one malformed payload: whatever the
\* "name" and "brand" of the hits (missing, null, or of another type than
\* str), search_products returns, and its result holds a record for every
\* hit of the store's answer, with a str for its name.
C21_MalformedNeverAborts ==
    Searched =>
        /\ ~searching.outcome.raised
        /\ \A k \in 1..Len(searching.points) :
               \E j \in 1..Len(searching.outcome.value) :
                   /\ searching.outcome.value[j].id = searching.points[k].id
                   /\ searching.outcome.value[j].name[1] = "str"

\* the store's answer is taken from the nearest points of the query
FromNearest(points, n) ==
    \A k \in 1..Len(points) : \E j \in 1..Min(n, Len(ranking)) : points[k] = ranking[j]

RetryBounded ==
    /\ startup.attempt < startup.max_retries
    /\ Len(startup.slept) = startup.attempt
    /\ \A k \in 1..Len(startup.slept) : startup.slept[k] = 2 ^ (k - 1)
    /\ startup.pc = "sleep" => startup.attempt < startup.max_retries - 1

\* the loop has ended: the client is there, or the exception has left it
Settled == startup.pc \in {"done", "raised"}

RetryTerminates == <>Settled

\* a request on a store that answers none of its operations is given
\* trending products
UnreachableGivesTrending ==
    (Answered /\ response.faults = FaultOps) =>
        /\ ~response.ran.outcome.raised
        /\ Returned # <<>>
        /\ AllTrending(Returned)

\* C23: while the store is unreachable the failing operation is tried at most
\* max_retries times, with a wait of 2^attempt seconds between two attempts
\* and none after the last; the retry loop ends; and a recommendation request
\* issued while the store is unreachable is answered with a trending payload,
\* not with a failure.
C23_RetryThenTrending == []RetryBounded /\ RetryTerminates /\ []UnreachableGivesTrending

=============================================================================
